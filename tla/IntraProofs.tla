---------------------------- MODULE IntraProofs ----------------------------
(***************************************************************************)
(* Local messages: what holds of every program, on any number of nodes and *)
(* with any number of handles.                                             *)
(***************************************************************************)
EXTENDS Intra, Integers, SequenceTheorems, WellFoundedInduction, TLAPS

Tags == {c.tag : c \in SendCalls} \cup {c.tag : c \in RecvCalls} \cup {AnyTag}
Handles == Nodes \X Nat

SendHandle ==
  [stat : Stats, type : SendTypes, mode : Modes, dest : Nodes \cup {NoNode}, tag : Tags,
   len : {0, 1}, sys_buf : BOOLEAN, curdata : {"user", "sys"}, msg : Nat, live : BOOLEAN,
   held : BOOLEAN]
RecvHandle ==
  [stat : Stats \ {"PEND_RELS"}, type : RecvTypes, src : Nodes \cup {AnySource}, tag : Tags,
   msg : Nat, live : BOOLEAN, held : BOOLEAN]

\* What the histories keep of a call.
SendAsked == [dest : Nodes \cup {NoNode}, tag : Tags]
RecvAsked == [src : Nodes \cup {AnySource}, tag : Tags]

Types ==
  /\ sh \in [SH -> SendHandle] /\ rh \in [RH -> RecvHandle]
  /\ sq \in [Nodes -> Seq(SH)] /\ rq \in [Nodes -> Seq(RH)]
  /\ chlock \in [Nodes -> Nodes \cup {NoNode}] /\ shlock \in [SH -> Nodes \cup {NoNode}]
  /\ pc \in [Nodes -> Locations]
  /\ cur \in [Nodes -> Handles] /\ found \in [Nodes -> Handles]
  /\ nsh \in [Nodes -> Nat] /\ nrh \in [Nodes -> Nat] /\ spurious \in Nat
  /\ sent \in [Nodes -> Seq(SendAsked)] /\ posted \in [Nodes -> Seq(RecvAsked)]
  /\ matched \subseteq [msg : Handles, recv : Handles, data : {"intact", "overwritten"}]

\* Where a blocking call may be, whose handle no program holds.
BlockingSend == {"start_sh", "fill_rh", "enter_wait_sh", "wait_sh", "sleep_sh", "wake_sh"}
BlockingRecv == {"start_rh", "fill_sh", "enter_wait_rh", "wait_rh", "sleep_rh", "wake_rh"}

\* A node inside the library works on a handle of its own.
Working ==
  \A t \in Nodes :
    /\ pc[t] \in SendLocs =>
         cur[t] \in SH /\ cur[t][1] = t /\ cur[t][2] <= nsh[t] /\ sh[cur[t]].dest \in Nodes
    /\ pc[t] \in RecvLocs => cur[t] \in RH /\ cur[t][1] = t /\ cur[t][2] <= nrh[t]

\* Between taking a handle out of a queue and filling it a node has the channel locked, so
\* that the owner of the handle cannot start it again.
FillingRecv(t) ==
  /\ found[t] \in RH /\ chlock[found[t][1]] = t /\ ~InQueue(rq[found[t][1]], found[t])
  /\ rh[found[t]].stat \notin {"NONE", "CREATE"}
  /\ sh[cur[t]].dest = found[t][1] /\ sh[cur[t]].stat = "MATCH"
  /\ Fits(rh[found[t]], t, sh[cur[t]].tag)
FillingSend(t) ==
  /\ found[t] \in SH /\ chlock[t] = t /\ ~InQueue(sq[t], found[t])
  /\ sh[found[t]].stat \notin {"NONE", "CREATE"} /\ sh[found[t]].dest = t
  /\ rh[cur[t]].stat = "CREATE"
  /\ Fits(rh[cur[t]], found[t][1], sh[found[t]].tag)
Filling ==
  \A t \in Nodes : /\ pc[t] = "fill_rh" => FillingRecv(t)
                   /\ pc[t] = "fill_sh" => FillingSend(t)

\* A queue holds a handle once, and handles that belong there.
NoDup(q) == \A i, j \in 1..Len(q) : q[i] = q[j] => i = j
Queues ==
  \A n \in Nodes :
    /\ NoDup(sq[n]) /\ NoDup(rq[n])
    /\ \A h \in SH : InQueue(sq[n], h) => sh[h].dest = n /\ sh[h].stat \notin {"NONE", "CREATE"}
    /\ \A r \in RH : InQueue(rq[n], r) => r[1] = n /\ rh[r].stat \notin {"NONE", "CREATE"}

Unborn ==
  /\ \A h \in SH : sh[h] = NoSend \/ (h[2] <= nsh[h[1]] /\ sh[h].dest \in Nodes)
  /\ \A r \in RH : r[2] <= nrh[r[1]] \/ rh[r] = NoRecv

\* What is known of the handle's state when its owner has looked at it before: the other
\* side may have retired a persistent send that was left behind, and then it is in no
\* queue; other than that a started request is pending or matched.
Going == PEND \cup {"MATCH"}
SendStates ==
  \A t \in Nodes :
    LET h == cur[t] IN
    /\ pc[t] = "start_sh" => sh[h].stat \in {"CREATE", "FREE"}
    /\ pc[t] \in {"wait_sh", "test_sh", "free_test_sh"} =>
         \/ sh[h].stat \in Going
         \/ sh[h].type = "PERSISTENT" /\ \A n \in Nodes : ~InQueue(sq[n], h)
    /\ pc[t] = "enter_wait_sh" /\ sh[h].type = "SEND" => sh[h].stat \in Going
RecvStates ==
  \A t \in Nodes :
    LET r == cur[t] IN
    /\ pc[t] = "start_rh" => rh[r].stat = "CREATE"
    /\ pc[t] = "wait_rh" => rh[r].stat \in Going
    /\ pc[t] = "wake_rh" => rh[r].stat \in {"PEND_WAIT", "MATCH"}
    /\ pc[t] = "enter_wait_rh" /\ rh[r].type = "RECV" => rh[r].stat \in Going

\* NoMissedMatch by handle.
NoMissed ==
  \A n \in Nodes, h \in SH, r \in RH :
    InQueue(sq[n], h) /\ InQueue(rq[n], r) /\ sh[h].stat \in PEND /\ rh[r].stat \in PEND =>
      ~Fits(rh[r], h[1], sh[h].tag)

\* Starts are numbered.
Numbers ==
  /\ \A h \in SH : sh[h].msg <= Len(sent[h[1]])
  /\ \A r \in RH : rh[r].msg <= Len(posted[r[1]])
  /\ \A g, h \in SH : g[1] = h[1] /\ g # h /\ sh[g].msg = sh[h].msg => sh[h].msg = 0
  /\ \A q, r \in RH : q[1] = r[1] /\ q # r /\ rh[q].msg = rh[r].msg => rh[r].msg = 0

\* A message (a receive) that has been started and that nobody has got (that has got
\* nothing) yet, and for which the handle says what the call asked for.
FreshSend(h) ==
  /\ sh[h].msg \in 1..Len(sent[h[1]])
  /\ sent[h[1]][sh[h].msg] = [dest |-> sh[h].dest, tag |-> sh[h].tag]
  /\ \A m \in matched : m.msg # <<h[1], sh[h].msg>>
FreshRecv(r) ==
  /\ rh[r].msg \in 1..Len(posted[r[1]])
  /\ posted[r[1]][rh[r].msg] = [src |-> rh[r].src, tag |-> rh[r].tag]
  /\ \A m \in matched : m.recv # <<r[1], rh[r].msg>>
Fresh ==
  /\ \A n \in Nodes, h \in SH : InQueue(sq[n], h) /\ sh[h].stat \in PEND => FreshSend(h)
  /\ \A n \in Nodes, r \in RH : InQueue(rq[n], r) /\ rh[r].stat \in PEND => FreshRecv(r)
  /\ \A t \in Nodes : /\ pc[t] = "fill_rh" => FreshSend(cur[t]) /\ FreshRecv(found[t])
                      /\ pc[t] = "fill_sh" => FreshSend(found[t]) /\ FreshRecv(cur[t])

Matched ==
  /\ ExactlyOnce
  /\ \A m \in matched : /\ m.msg[2] \in 1..Len(sent[m.msg[1]])
                        /\ m.recv[2] \in 1..Len(posted[m.recv[1]])

\* Who answers for a live handle: the program that holds the request, the call that works
\* on it or, for a message that was left behind, the receiver that finds it in the queue.
LeftBehind(h) == sh[h].stat = "PEND_RELS" /\ sh[h].type # "PERSISTENT"
Answered ==
  /\ \A t \in Nodes :
       /\ pc[t] \in SendLocs /\ sh[cur[t]].live =>
            sh[cur[t]].held \/ (sh[cur[t]].type = "SEND" /\ pc[t] \in BlockingSend)
       /\ pc[t] \in RecvLocs /\ rh[cur[t]].live =>
            rh[cur[t]].held \/ (rh[cur[t]].type = "RECV" /\ pc[t] \in BlockingRecv)
  /\ \A h \in SH :
       /\ sh[h].type # "PERSISTENT" /\ sh[h].stat \in PEND =>
            InQueue(sq[sh[h].dest], h) \/ SendBeingFilled(h)
       /\ LeftBehind(h) => ~sh[h].held /\ ~(pc[h[1]] \in SendLocs /\ cur[h[1]] = h)
       /\ sh[h].live => sh[h].held \/ (pc[h[1]] \in SendLocs /\ cur[h[1]] = h) \/ LeftBehind(h)
       /\ sh[h].held => sh[h].type # "SEND"
  /\ \A r \in RH :
       /\ rh[r].live => rh[r].held \/ (pc[r[1]] \in RecvLocs /\ cur[r[1]] = r)
       /\ rh[r].held => rh[r].type # "RECV"

Good ==
  /\ Types /\ NoFault /\ Working /\ Filling /\ Queues /\ Unborn /\ SendStates /\ RecvStates
  /\ NoMissed /\ NoLostWakeup /\ Numbers /\ Fresh /\ Matched /\ Answered

Stopped ==
  /\ \A n \in Nodes : pc[n] = "crashed"
  /\ NoMissed /\ Matched /\ Types

Inv == Good \/ Stopped
----------------------------------------------------------------------------
(* Queues. *)

\* A set of numbers that is not empty has a least one.
LEMMA Least ==
  ASSUME NEW T \in SUBSET Nat, T # {}
  PROVE  \E x \in T : \A y \in T : x <= y
  <1> DEFINE R == {p \in Nat \X Nat : p[1] < p[2]}
  <1>1. IsWellFoundedOn(R, Nat)
    BY NatLessThanWellFounded DEF OpToRel
  <1>2. PICK x \in T : \A y \in T : <<y, x>> \notin R
    BY <1>1, WFMin
  <1>3. \A y \in T : ~(y < x)
    BY <1>2
  <1> QED  BY <1>3

\* What a search returns.
LEMMA FirstIs ==
  ASSUME NEW X, NEW q \in Seq(X), NEW S
  PROVE  /\ First(q, S) = 0 => \A i \in 1..Len(q) : q[i] \notin S
         /\ First(q, S) # 0 => /\ First(q, S) \in 1..Len(q) /\ q[First(q, S)] \in S
                               /\ \A j \in 1..(First(q, S) - 1) : q[j] \notin S
  <1>1. Len(q) \in Nat
    OBVIOUS
  <1>2. CASE \E i \in 1..Len(q) : q[i] \in S
    <2> DEFINE T == {i \in 1..Len(q) : q[i] \in S}
    <2>1. T \in SUBSET Nat /\ T # {}
      BY <1>1, <1>2
    <2>2. PICK x \in T : \A y \in T : x <= y
      BY <2>1, Least
    <2>3. x \in 1..Len(q) /\ q[x] \in S /\ \A j \in 1..(x - 1) : q[j] \notin S
      BY <1>1, <2>2
    <2>4. First(q, S) = CHOOSE i \in 1..Len(q) : q[i] \in S /\ \A j \in 1..(i - 1) : q[j] \notin S
      BY <1>2 DEF First
    <2>5. /\ First(q, S) \in 1..Len(q) /\ q[First(q, S)] \in S
          /\ \A j \in 1..(First(q, S) - 1) : q[j] \notin S
      BY <2>3, <2>4
    <2> QED  BY <1>1, <2>5
  <1>3. CASE ~\E i \in 1..Len(q) : q[i] \in S
    BY <1>3 DEF First
  <1> QED  BY <1>2, <1>3

\* A handle goes to the end of a queue (enQ).
LEMMA Appended ==
  ASSUME NEW X, NEW q \in Seq(X), NEW e \in X, NoDup(q), ~InQueue(q, e)
  PROVE  /\ Append(q, e) \in Seq(X) /\ NoDup(Append(q, e))
         /\ \A x : InQueue(Append(q, e), x) <=> InQueue(q, x) \/ x = e
  <1>1. Len(q) \in Nat
    OBVIOUS
  <1>2. /\ Append(q, e) \in Seq(X) /\ Len(Append(q, e)) = Len(q) + 1
        /\ \A i \in 1..Len(q) : Append(q, e)[i] = q[i]
        /\ Append(q, e)[Len(q) + 1] = e
    BY AppendProperties
  <1>3. 1..Len(Append(q, e)) = (1..Len(q)) \cup {Len(q) + 1}
    BY <1>1, <1>2
  <1>4. NoDup(Append(q, e))
    BY <1>2, <1>3 DEF NoDup, InQueue
  <1>5. \A x : InQueue(Append(q, e), x) <=> InQueue(q, x) \/ x = e
    BY <1>2, <1>3 DEF InQueue
  <1> QED  BY <1>2, <1>4, <1>5

\* An element is taken out of a queue: the others stay, in their order.
LEMMA WithoutIs ==
  ASSUME NEW X, NEW q \in Seq(X), NEW i \in 1..Len(q)
  PROVE  /\ Without(q, i) \in Seq(X) /\ Len(Without(q, i)) = Len(q) - 1
         /\ \A j \in 1..(Len(q) - 1) : Without(q, i)[j] = IF j < i THEN q[j] ELSE q[j + 1]
  <1> DEFINE a == SubSeq(q, 1, i - 1)
             b == SubSeq(q, i + 1, Len(q))
  <1>1. Len(q) \in Nat /\ \A j \in 1..Len(q) : q[j] \in X
    BY ElementOfSeq
  <1>2. a \in Seq(X) /\ Len(a) = i - 1 /\ \A j \in 1..(i - 1) : a[j] = q[j]
    <2>1. \A j \in 1..(i - 1) : q[j] \in X
      BY <1>1
    <2>2. /\ a \in Seq(X) /\ Len(a) = IF 1 <= i - 1 THEN i - 1 - 1 + 1 ELSE 0
          /\ \A j \in 1..(i - 1 - 1 + 1) : a[j] = q[1 + j - 1]
      BY <1>1, <2>1, SubSeqProperties
    <2> QED  BY <1>1, <2>2
  <1>3. b \in Seq(X) /\ Len(b) = Len(q) - i /\ \A j \in 1..(Len(q) - i) : b[j] = q[i + j]
    <2>1. \A j \in (i + 1)..Len(q) : q[j] \in X
      BY <1>1
    <2>2. /\ b \in Seq(X) /\ Len(b) = IF i + 1 <= Len(q) THEN Len(q) - (i + 1) + 1 ELSE 0
          /\ \A j \in 1..(Len(q) - (i + 1) + 1) : b[j] = q[i + 1 + j - 1]
      BY <1>1, <2>1, SubSeqProperties
    <2>3. Len(b) = Len(q) - i
      BY <1>1, <2>2
    <2>4. ASSUME NEW j \in 1..(Len(q) - i) PROVE b[j] = q[i + j]
      <3>1. j \in 1..(Len(q) - (i + 1) + 1) /\ i + 1 + j - 1 = i + j
        BY <1>1
      <3> QED  BY <2>2, <3>1
    <2> QED  BY <2>2, <2>3, <2>4
  <1>4. Without(q, i) = a \o b
    BY DEF Without
  <1>5. /\ a \o b \in Seq(X) /\ Len(a \o b) = Len(a) + Len(b)
        /\ \A j \in 1..(Len(a) + Len(b)) : (a \o b)[j] = IF j <= Len(a) THEN a[j] ELSE b[j - Len(a)]
    BY <1>2, <1>3, ConcatProperties
  <1> HIDE DEF a, b
  <1>6. Len(a) + Len(b) = Len(q) - 1
    BY <1>1, <1>2, <1>3
  <1>7. ASSUME NEW j \in 1..(Len(q) - 1)
        PROVE  (a \o b)[j] = IF j < i THEN q[j] ELSE q[j + 1]
    <2>1. CASE j < i
      BY <1>1, <1>2, <1>5, <1>6, <2>1
    <2>2. CASE j >= i
      <3>1. (a \o b)[j] = b[j - (i - 1)]
        BY <1>1, <1>2, <1>5, <1>6, <2>2
      <3>2. j - (i - 1) \in 1..(Len(q) - i) /\ i + (j - (i - 1)) = j + 1
        BY <1>1, <2>2
      <3>3. b[j - (i - 1)] = q[i + (j - (i - 1))]
        BY <1>3, <3>2
      <3>4. ~(j < i)
        BY <1>1, <2>2
      <3> QED  BY <3>1, <3>2, <3>3, <3>4
    <2>3. j < i \/ j >= i
      BY <1>1
    <2> QED  BY <2>1, <2>2, <2>3
  <1> QED  BY <1>4, <1>5, <1>6, <1>7

\* ... and what is in the queue afterwards.
LEMMA Removed ==
  ASSUME NEW X, NEW q \in Seq(X), NEW i \in 1..Len(q), NoDup(q)
  PROVE  /\ Without(q, i) \in Seq(X) /\ NoDup(Without(q, i)) /\ q[i] \in X
         /\ InQueue(q, q[i])
         /\ \A x : InQueue(Without(q, i), x) <=> InQueue(q, x) /\ x # q[i]
  <1> DEFINE w == Without(q, i)
  <1>1. Len(q) \in Nat /\ q[i] \in X
    BY ElementOfSeq
  <1>2. /\ w \in Seq(X) /\ Len(w) = Len(q) - 1
        /\ \A j \in 1..(Len(q) - 1) : w[j] = IF j < i THEN q[j] ELSE q[j + 1]
    BY WithoutIs
  <1> HIDE DEF w
  <1>3. NoDup(w)
    <2> SUFFICES ASSUME NEW j \in 1..(Len(q) - 1), NEW k \in 1..(Len(q) - 1), w[j] = w[k] PROVE j = k
      BY <1>2 DEF NoDup
    <2>1. j \in Nat /\ k \in Nat /\ i \in Nat /\ Len(q) \in Nat
      BY <1>1
    <2> DEFINE Place(n) == IF n < i THEN n ELSE n + 1
    <2>2. Place(j) \in 1..Len(q) /\ Place(k) \in 1..Len(q)
      BY <2>1
    <2>3. w[j] = q[Place(j)] /\ w[k] = q[Place(k)]
      BY <1>2
    <2>4. Place(j) = Place(k)
      <3> HIDE DEF Place
      <3> QED  BY <2>2, <2>3 DEF NoDup
    <2> QED  BY <2>1, <2>4
  <1>4. ASSUME NEW x, InQueue(w, x) PROVE InQueue(q, x) /\ x # q[i]
    <2>1. PICK j \in 1..(Len(q) - 1) : w[j] = x
      BY <1>2, <1>4 DEF InQueue
    <2> DEFINE jj == IF j < i THEN j ELSE j + 1
    <2>2. jj \in 1..Len(q) /\ q[jj] = x /\ jj # i
      BY <1>1, <1>2, <2>1
    <2> QED  BY <2>2 DEF NoDup, InQueue
  <1>5. ASSUME NEW x, InQueue(q, x), x # q[i] PROVE InQueue(w, x)
    <2>1. PICK j \in 1..Len(q) : q[j] = x
      BY <1>5 DEF InQueue
    <2>2. j # i
      BY <1>5, <2>1
    <2> DEFINE jj == IF j < i THEN j ELSE j - 1
    <2>3. jj \in 1..(Len(q) - 1) /\ w[jj] = x
      BY <1>1, <1>2, <2>1, <2>2
    <2> QED  BY <1>2, <2>3 DEF InQueue
  <1>6. InQueue(q, q[i])
    BY DEF InQueue
  <1> QED  BY <1>1, <1>2, <1>3, <1>4, <1>5, <1>6 DEF w

----------------------------------------------------------------------------
(* Steps of a node on its own handle. *)

\* A step on a send handle that keeps what the call asked for, makes nothing pending that
\* was not (or what is in no queue), and leaves nobody without an answer.
LEMMA OnSendStep ==
  ASSUME Good, NEW t \in Nodes, pc[t] \in SendLocs \ {"fill_rh"}, NEW s \in SendHandle,
         NEW l \in {"idle", "wait_sh", "sleep_sh", "enter_free_test_sh", "free_test_sh"},
         OnSend(t, s, l),
         s.type = sh[cur[t]].type, s.dest = sh[cur[t]].dest, s.tag = sh[cur[t]].tag,
         s.msg = sh[cur[t]].msg, s.held => s.type # "SEND",
         s.stat \notin {"NONE", "CREATE"} \/ s.stat = sh[cur[t]].stat,
         s.stat \in PEND =>
           \/ sh[cur[t]].stat \in PEND
           \/ s.type = "PERSISTENT" /\ \A n \in Nodes : ~InQueue(sq[n], cur[t]),
         l = "sleep_sh" => s.stat = "PEND_WAIT",
         l \in {"wait_sh", "free_test_sh"} => s.stat \in Going,
         s.stat = "PEND_RELS" /\ s.type # "PERSISTENT" => l = "idle" /\ ~s.held,
         s.live => \/ s.held
                   \/ s.type = "SEND" /\ l \in BlockingSend
                   \/ s.stat = "PEND_RELS" /\ s.type # "PERSISTENT" /\ l = "idle"
  PROVE  Good'
  <1> DEFINE h == cur[t]
  <1>1. h \in SH /\ h[1] = t /\ h[2] <= nsh[t] /\ sh[h].dest \in Nodes
    BY DEF Good, Working
  <1>2. /\ sh' = [sh EXCEPT ![h] = s] /\ pc' = [pc EXCEPT ![t] = l]
        /\ UNCHANGED <<rh, sq, rq, chlock, shlock, cur, found, nsh, nrh, spurious, sent, posted, matched>>
    BY DEF OnSend, queues, locks, counts, history
  <1>3. /\ Types' /\ sh'[h] = s /\ \A x \in SH : x # h => sh'[x] = sh[x]
        /\ pc'[t] = l /\ \A u \in Nodes : u # t => pc'[u] = pc[u]
    <2>1. sh \in [SH -> SendHandle] /\ pc \in [Nodes -> Locations] /\ l \in Locations
      BY DEF Good, Types, Locations, SendLocs
    <2>2. sh' \in [SH -> SendHandle] /\ pc' \in [Nodes -> Locations]
      BY <1>1, <1>2, <2>1
    <2> QED  BY <1>1, <1>2, <2>1, <2>2 DEF Good, Types
  <1>4. \A u \in Nodes : u # t /\ pc[u] \in SendLocs => cur[u] # h
    BY <1>1 DEF Good, Working
  <1>5. NoFault'
    BY <1>3 DEF Good, NoFault
  <1>6. Working'
    BY <1>1, <1>2, <1>3, <1>4 DEF Good, Working, SendLocs, RecvLocs
  <1>7. Filling'
    BY <1>1, <1>2, <1>3, <1>4 DEF Good, Filling, FillingRecv, FillingSend, SendLocs
  <1>8. Queues'
    BY <1>1, <1>2, <1>3 DEF Good, Queues
  <1>9. Unborn'
    BY <1>1, <1>2, <1>3 DEF Good, Unborn
  <1>10. SendStates'
    BY <1>1, <1>2, <1>3, <1>4 DEF Good, SendStates, SendLocs
  <1>11. RecvStates'
    BY <1>1, <1>2, <1>3 DEF Good, RecvStates
  <1>12. NoMissed'
    BY <1>1, <1>2, <1>3 DEF Good, NoMissed
  <1>13. NoLostWakeup'
    BY <1>1, <1>2, <1>3, <1>4 DEF Good, NoLostWakeup, SendLocs
  <1>14. Numbers'
    BY <1>1, <1>2, <1>3 DEF Good, Numbers
  <1>15. Fresh'
    <2>1. \A x \in SH : FreshSend(x) => FreshSend(x)'
      BY <1>1, <1>2, <1>3 DEF FreshSend
    <2>2. \A x \in RH : FreshRecv(x) => FreshRecv(x)'
      BY <1>2 DEF FreshRecv
    <2> QED  BY <1>1, <1>2, <1>3, <1>4, <2>1, <2>2 DEF Good, Fresh, Working, Filling, FillingRecv,
                FillingSend, SendLocs, RecvLocs
  <1>16. Matched'
    BY <1>2 DEF Good, Matched, ExactlyOnce
  <1>17. \A x \in SH : SendBeingFilled(x) => SendBeingFilled(x)'
    BY <1>2, <1>3 DEF SendBeingFilled, SendLocs
  <1>18. Answered'
    <2>1. \A u \in Nodes :
            /\ pc'[u] \in SendLocs /\ sh'[cur'[u]].live =>
                 sh'[cur'[u]].held \/ (sh'[cur'[u]].type = "SEND" /\ pc'[u] \in BlockingSend)
            /\ pc'[u] \in RecvLocs /\ rh'[cur'[u]].live =>
                 rh'[cur'[u]].held \/ (rh'[cur'[u]].type = "RECV" /\ pc'[u] \in BlockingRecv)
      BY <1>1, <1>2, <1>3, <1>4 DEF Good, Answered, SendLocs, RecvLocs
    <2>2. ASSUME NEW x \in SH
          PROVE  /\ sh'[x].type # "PERSISTENT" /\ sh'[x].stat \in PEND =>
                      InQueue(sq'[sh'[x].dest], x) \/ SendBeingFilled(x)'
                 /\ LeftBehind(x)' => ~sh'[x].held /\ ~(pc'[x[1]] \in SendLocs /\ cur'[x[1]] = x)
                 /\ sh'[x].live => sh'[x].held \/ (pc'[x[1]] \in SendLocs /\ cur'[x[1]] = x) \/ LeftBehind(x)'
                 /\ sh'[x].held => sh'[x].type # "SEND"
      <3>1. CASE x = h
        BY <1>1, <1>2, <1>3, <1>17, <3>1 DEF Good, Answered, LeftBehind, SendLocs, BlockingSend
      <3>2. CASE x # h
        <4>1. sh'[x] = sh[x] /\ x[1] \in Nodes
          BY <1>3, <3>2 DEF SH
        <4> QED  BY <1>1, <1>2, <1>3, <1>17, <3>2, <4>1 DEF Good, Answered, LeftBehind
      <3> QED  BY <3>1, <3>2
    <2>3. ASSUME NEW x \in RH
          PROVE  /\ rh'[x].live => rh'[x].held \/ (pc'[x[1]] \in RecvLocs /\ cur'[x[1]] = x)
                 /\ rh'[x].held => rh'[x].type # "RECV"
      BY <1>1, <1>2, <1>3 DEF Good, Answered, SendLocs, RecvLocs, RH
    <2> QED  BY <2>1, <2>2, <2>3 DEF Answered
  <1> QED  BY <1>3, <1>5, <1>6, <1>7, <1>8, <1>9, <1>10, <1>11, <1>12, <1>13, <1>14, <1>15, <1>16,
              <1>18 DEF Good

\* The same for a receive handle.
LEMMA OnRecvStep ==
  ASSUME Good, NEW t \in Nodes, pc[t] \in RecvLocs \ {"fill_sh"}, NEW s \in RecvHandle,
         NEW l \in {"idle", "wait_rh", "sleep_rh", "free_test_rh"},
         OnRecv(t, s, l),
         s.type = rh[cur[t]].type, s.src = rh[cur[t]].src, s.tag = rh[cur[t]].tag,
         s.msg = rh[cur[t]].msg, s.held => rh[cur[t]].held,
         s.stat \notin {"NONE", "CREATE"} \/ s.stat = rh[cur[t]].stat,
         s.stat \in PEND => rh[cur[t]].stat \in PEND,
         l = "sleep_rh" => s.stat = "PEND_WAIT",
         l = "wait_rh" => s.stat \in Going,
         s.live => s.held \/ (s.type = "RECV" /\ l \in BlockingRecv)
  PROVE  Good'
  <1> DEFINE r == cur[t]
  <1>1. r \in RH /\ r[1] = t /\ r[2] <= nrh[t]
    BY DEF Good, Working
  <1>2. /\ rh' = [rh EXCEPT ![r] = s] /\ pc' = [pc EXCEPT ![t] = l]
        /\ UNCHANGED <<sh, sq, rq, chlock, shlock, cur, found, nsh, nrh, spurious, sent, posted, matched>>
    BY DEF OnRecv, queues, locks, counts, history
  <1>3. /\ Types' /\ rh'[r] = s /\ \A x \in RH : x # r => rh'[x] = rh[x]
        /\ pc'[t] = l /\ \A u \in Nodes : u # t => pc'[u] = pc[u]
    <2>1. rh \in [RH -> RecvHandle] /\ pc \in [Nodes -> Locations] /\ l \in Locations
      BY DEF Good, Types, Locations, RecvLocs
    <2>2. rh' \in [RH -> RecvHandle] /\ pc' \in [Nodes -> Locations]
      BY <1>1, <1>2, <2>1
    <2> QED  BY <1>1, <1>2, <2>1, <2>2 DEF Good, Types
  <1>4. \A u \in Nodes : u # t /\ pc[u] \in RecvLocs => cur[u] # r
    BY <1>1 DEF Good, Working
  <1>5. NoFault'
    BY <1>3 DEF Good, NoFault
  <1>6. Working'
    BY <1>1, <1>2, <1>3 DEF Good, Working, SendLocs, RecvLocs
  <1>7. Filling'
    BY <1>1, <1>2, <1>3, <1>4 DEF Good, Filling, FillingRecv, FillingSend, RecvLocs, Fits
  <1>8. Queues'
    BY <1>1, <1>2, <1>3 DEF Good, Queues
  <1>9. Unborn'
    BY <1>1, <1>2, <1>3 DEF Good, Unborn
  <1>10. SendStates'
    BY <1>1, <1>2, <1>3 DEF Good, SendStates
  <1>11. RecvStates'
    BY <1>1, <1>2, <1>3, <1>4 DEF Good, RecvStates, RecvLocs
  <1>12. NoMissed'
    BY <1>1, <1>2, <1>3 DEF Good, NoMissed, Fits
  <1>13. NoLostWakeup'
    BY <1>1, <1>2, <1>3, <1>4 DEF Good, NoLostWakeup, RecvLocs
  <1>14. Numbers'
    BY <1>1, <1>2, <1>3 DEF Good, Numbers
  <1>15. Fresh'
    <2>1. \A x \in SH : FreshSend(x) => FreshSend(x)'
      BY <1>2 DEF FreshSend
    <2>2. \A x \in RH : FreshRecv(x) => FreshRecv(x)'
      BY <1>1, <1>2, <1>3 DEF FreshRecv
    <2> QED  BY <1>1, <1>2, <1>3, <1>4, <2>1, <2>2 DEF Good, Fresh, Working, Filling, FillingRecv,
                FillingSend, SendLocs, RecvLocs
  <1>16. Matched'
    BY <1>2 DEF Good, Matched, ExactlyOnce
  <1>17. \A x \in SH : SendBeingFilled(x) => SendBeingFilled(x)'
    BY <1>2, <1>3 DEF SendBeingFilled
  <1>18. Answered'
    <2>1. \A u \in Nodes :
            /\ pc'[u] \in SendLocs /\ sh'[cur'[u]].live =>
                 sh'[cur'[u]].held \/ (sh'[cur'[u]].type = "SEND" /\ pc'[u] \in BlockingSend)
            /\ pc'[u] \in RecvLocs /\ rh'[cur'[u]].live =>
                 rh'[cur'[u]].held \/ (rh'[cur'[u]].type = "RECV" /\ pc'[u] \in BlockingRecv)
      BY <1>1, <1>2, <1>3, <1>4 DEF Good, Answered, SendLocs, RecvLocs
    <2>2. ASSUME NEW x \in SH
          PROVE  /\ sh'[x].type # "PERSISTENT" /\ sh'[x].stat \in PEND =>
                      InQueue(sq'[sh'[x].dest], x) \/ SendBeingFilled(x)'
                 /\ LeftBehind(x)' => ~sh'[x].held /\ ~(pc'[x[1]] \in SendLocs /\ cur'[x[1]] = x)
                 /\ sh'[x].live => sh'[x].held \/ (pc'[x[1]] \in SendLocs /\ cur'[x[1]] = x) \/ LeftBehind(x)'
                 /\ sh'[x].held => sh'[x].type # "SEND"
      BY <1>1, <1>2, <1>3, <1>17 DEF Good, Answered, LeftBehind, SendLocs, RecvLocs, SH
    <2>3. ASSUME NEW x \in RH
          PROVE  /\ rh'[x].live => rh'[x].held \/ (pc'[x[1]] \in RecvLocs /\ cur'[x[1]] = x)
                 /\ rh'[x].held => rh'[x].type # "RECV"
      <3>1. CASE x = r
        BY <1>1, <1>2, <1>3, <3>1 DEF Good, Answered, BlockingRecv, RecvLocs
      <3>2. CASE x # r
        <4>1. rh'[x] = rh[x] /\ x[1] \in Nodes
          BY <1>3, <3>2 DEF RH
        <4> QED  BY <1>1, <1>2, <1>3, <3>2, <4>1 DEF Good, Answered
      <3> QED  BY <3>1, <3>2
    <2> QED  BY <2>1, <2>2, <2>3 DEF Answered
  <1> QED  BY <1>3, <1>5, <1>6, <1>7, <1>8, <1>9, <1>10, <1>11, <1>12, <1>13, <1>14, <1>15, <1>16,
              <1>18 DEF Good

\* A program makes a call on a request it holds.
LEMMA CallOnStep ==
  ASSUME Good, NEW t \in Nodes, NEW what, NEW x \in Handles,
         NEW l \in {"start_sh", "enter_wait_sh", "test_sh", "cancel_sh", "free_sh",
                    "start_rh", "enter_wait_rh", "test_rh", "cancel_rh", "free_rh"},
         CallOn(t, what, x, l),
         l \in SendLocs =>
           /\ x \in SH /\ x[1] = t /\ sh[x].held
           /\ l = "start_sh" => sh[x].stat \in {"CREATE", "FREE"}
           /\ l = "test_sh" => sh[x].stat \in Going,
         l \in RecvLocs =>
           /\ x \in RH /\ x[1] = t /\ rh[x].held
           /\ l = "start_rh" => rh[x].stat = "CREATE"
  PROVE  Good'
  <1>1. /\ pc[t] = "idle" /\ pc' = [pc EXCEPT ![t] = l] /\ cur' = [cur EXCEPT ![t] = x]
        /\ UNCHANGED <<sh, rh, sq, rq, chlock, shlock, found, nsh, nrh, spurious, sent, posted, matched>>
    BY DEF CallOn, Goto, handles, queues, locks, counts, history
  <1>2. /\ Types' /\ pc'[t] = l /\ cur'[t] = x
        /\ \A u \in Nodes : u # t => pc'[u] = pc[u] /\ cur'[u] = cur[u]
    <2>1. cur \in [Nodes -> Handles] /\ pc \in [Nodes -> Locations] /\ l \in Locations
      BY DEF Good, Types, Locations, RecvLocs, SendLocs
    <2>2. cur' \in [Nodes -> Handles] /\ pc' \in [Nodes -> Locations]
      BY <1>1, <2>1
    <2> QED  BY <1>1, <2>1, <2>2 DEF Good, Types
  <1>3. NoFault'
    BY <1>2 DEF Good, NoFault
  <1>4. Working'
    BY <1>1, <1>2 DEF Good, Working, Unborn, NoSend, NoRecv, SendLocs, RecvLocs
  <1>5. Filling'
    BY <1>1, <1>2 DEF Good, Filling, FillingRecv, FillingSend
  <1>6. Queues' /\ Unborn' /\ NoMissed' /\ Numbers'
    BY <1>1 DEF Good, Queues, Unborn, NoMissed, Numbers
  <1>7. SendStates'
    BY <1>1, <1>2 DEF Good, SendStates, Answered, SendLocs
  <1>8. RecvStates'
    BY <1>1, <1>2 DEF Good, RecvStates, Answered, RecvLocs
  <1>9. NoLostWakeup'
    BY <1>1, <1>2 DEF Good, NoLostWakeup
  <1>10. Fresh'
    <2>1. \A y \in SH : FreshSend(y) => FreshSend(y)'
      BY <1>1 DEF FreshSend
    <2>2. \A y \in RH : FreshRecv(y) => FreshRecv(y)'
      BY <1>1 DEF FreshRecv
    <2> QED  BY <1>1, <1>2, <2>1, <2>2 DEF Good, Fresh, Working, Filling, FillingRecv, FillingSend,
                SendLocs, RecvLocs
  <1>11. Matched'
    BY <1>1 DEF Good, Matched, ExactlyOnce
  <1>12. \A y \in SH : SendBeingFilled(y) => SendBeingFilled(y)'
    BY <1>1, <1>2 DEF SendBeingFilled
  <1>13. Answered'
    <2>1. \A u \in Nodes :
            /\ pc'[u] \in SendLocs /\ sh'[cur'[u]].live =>
                 sh'[cur'[u]].held \/ (sh'[cur'[u]].type = "SEND" /\ pc'[u] \in BlockingSend)
            /\ pc'[u] \in RecvLocs /\ rh'[cur'[u]].live =>
                 rh'[cur'[u]].held \/ (rh'[cur'[u]].type = "RECV" /\ pc'[u] \in BlockingRecv)
      BY <1>1, <1>2 DEF Good, Answered
    <2>2. ASSUME NEW y \in SH
          PROVE  /\ sh'[y].type # "PERSISTENT" /\ sh'[y].stat \in PEND =>
                      InQueue(sq'[sh'[y].dest], y) \/ SendBeingFilled(y)'
                 /\ LeftBehind(y)' => ~sh'[y].held /\ ~(pc'[y[1]] \in SendLocs /\ cur'[y[1]] = y)
                 /\ sh'[y].live => sh'[y].held \/ (pc'[y[1]] \in SendLocs /\ cur'[y[1]] = y) \/ LeftBehind(y)'
                 /\ sh'[y].held => sh'[y].type # "SEND"
      BY <1>1, <1>2, <1>12 DEF Good, Answered, LeftBehind, SendLocs, SH
    <2>3. ASSUME NEW y \in RH
          PROVE  /\ rh'[y].live => rh'[y].held \/ (pc'[y[1]] \in RecvLocs /\ cur'[y[1]] = y)
                 /\ rh'[y].held => rh'[y].type # "RECV"
      BY <1>1, <1>2 DEF Good, Answered, RecvLocs, RH
    <2> QED  BY <2>1, <2>2, <2>3 DEF Answered
  <1> QED  BY <1>2, <1>3, <1>4, <1>5, <1>6, <1>7, <1>8, <1>9, <1>10, <1>11, <1>13 DEF Good

----------------------------------------------------------------------------
(* Starting a request. *)

\* A history that one node adds to.
LEMMA Grows ==
  ASSUME NEW S, NEW f \in [Nodes -> Seq(S)], NEW t \in Nodes, NEW e \in S,
         NEW g, g = [f EXCEPT ![t] = Append(@, e)]
  PROVE  /\ g \in [Nodes -> Seq(S)]
         /\ \A n \in Nodes : Len(f[n]) \in Nat
         /\ Len(g[t]) = Len(f[t]) + 1 /\ g[t][Len(f[t]) + 1] = e
         /\ \A n \in Nodes : n # t => g[n] = f[n]
         /\ \A n \in Nodes : \A k \in 1..Len(f[n]) : k \in 1..Len(g[n]) /\ g[n][k] = f[n][k]
  <1>1. f[t] \in Seq(S) /\ \A n \in Nodes : f[n] \in Seq(S) /\ Len(f[n]) \in Nat
    OBVIOUS
  <1>2. /\ Append(f[t], e) \in Seq(S) /\ Len(Append(f[t], e)) = Len(f[t]) + 1
        /\ \A i \in 1..Len(f[t]) : Append(f[t], e)[i] = f[t][i]
        /\ Append(f[t], e)[Len(f[t]) + 1] = e
    BY <1>1, AppendProperties
  <1>3. g[t] = Append(f[t], e) /\ \A n \in Nodes : n # t => g[n] = f[n]
    OBVIOUS
  <1>4. g \in [Nodes -> Seq(S)]
    BY <1>1, <1>2
  <1>5. ASSUME NEW n \in Nodes, NEW k \in 1..Len(f[n]) PROVE k \in 1..Len(g[n]) /\ g[n][k] = f[n][k]
    BY <1>1, <1>2, <1>3
  <1> QED  BY <1>1, <1>2, <1>3, <1>4, <1>5

\* The history of a node's sends when it starts one ...
LEMMA SentGrows ==
  ASSUME Types, NEW t \in Nodes, NEW h \in SH, Sent(t, h)
  PROVE  /\ sent' \in [Nodes -> Seq(SendAsked)]
         /\ \A n \in Nodes : Len(sent[n]) \in Nat
         /\ Len(sent'[t]) = Len(sent[t]) + 1
         /\ sent'[t][Len(sent[t]) + 1] = [dest |-> sh[h].dest, tag |-> sh[h].tag]
         /\ \A n \in Nodes : n # t => sent'[n] = sent[n]
         /\ \A n \in Nodes : \A k \in 1..Len(sent[n]) : k \in 1..Len(sent'[n]) /\ sent'[n][k] = sent[n][k]
  <1> DEFINE e == [dest |-> sh[h].dest, tag |-> sh[h].tag]
  <1>1. e \in SendAsked
    BY DEF Types, SendAsked, SendHandle
  <1>2. sent' = [sent EXCEPT ![t] = Append(@, e)]
    BY DEF Sent
  <1>3. sent \in [Nodes -> Seq(SendAsked)]
    BY DEF Types
  <1> HIDE DEF e
  <1>4. /\ sent' \in [Nodes -> Seq(SendAsked)]
        /\ \A n \in Nodes : Len(sent[n]) \in Nat
        /\ Len(sent'[t]) = Len(sent[t]) + 1 /\ sent'[t][Len(sent[t]) + 1] = e
        /\ \A n \in Nodes : n # t => sent'[n] = sent[n]
        /\ \A n \in Nodes : \A k \in 1..Len(sent[n]) : k \in 1..Len(sent'[n]) /\ sent'[n][k] = sent[n][k]
    BY <1>1, <1>2, <1>3, Grows
  <1> QED  BY <1>4 DEF e

\* ... and of its receives.
LEMMA PostedGrows ==
  ASSUME Types, NEW t \in Nodes, NEW r \in RH, Posted(t, r)
  PROVE  /\ posted' \in [Nodes -> Seq(RecvAsked)]
         /\ \A n \in Nodes : Len(posted[n]) \in Nat
         /\ Len(posted'[t]) = Len(posted[t]) + 1
         /\ posted'[t][Len(posted[t]) + 1] = [src |-> rh[r].src, tag |-> rh[r].tag]
         /\ \A n \in Nodes : n # t => posted'[n] = posted[n]
         /\ \A n \in Nodes : \A k \in 1..Len(posted[n]) :
              k \in 1..Len(posted'[n]) /\ posted'[n][k] = posted[n][k]
  <1> DEFINE e == [src |-> rh[r].src, tag |-> rh[r].tag]
  <1>1. e \in RecvAsked
    BY DEF Types, RecvAsked, RecvHandle
  <1>2. posted' = [posted EXCEPT ![t] = Append(@, e)]
    BY DEF Posted
  <1>3. posted \in [Nodes -> Seq(RecvAsked)]
    BY DEF Types
  <1> HIDE DEF e
  <1>4. /\ posted' \in [Nodes -> Seq(RecvAsked)]
        /\ \A n \in Nodes : Len(posted[n]) \in Nat
        /\ Len(posted'[t]) = Len(posted[t]) + 1 /\ posted'[t][Len(posted[t]) + 1] = e
        /\ \A n \in Nodes : n # t => posted'[n] = posted[n]
        /\ \A n \in Nodes : \A k \in 1..Len(posted[n]) :
             k \in 1..Len(posted'[n]) /\ posted'[n][k] = posted[n][k]
    BY <1>1, <1>2, <1>3, Grows
  <1> QED  BY <1>4 DEF e

\* What has been received stays received when the histories of the calls grow.
LEMMA MatchedKept ==
  ASSUME Types, Matched, matched' = matched,
         \A n \in Nodes : \A k \in 1..Len(sent[n]) : k \in 1..Len(sent'[n]) /\ sent'[n][k] = sent[n][k],
         \A n \in Nodes : \A k \in 1..Len(posted[n]) :
           k \in 1..Len(posted'[n]) /\ posted'[n][k] = posted[n][k]
  PROVE  Matched'
  <1>1. \A m \in matched : /\ m.msg[1] \in Nodes /\ m.recv[1] \in Nodes
                           /\ m.msg[2] \in 1..Len(sent[m.msg[1]])
                           /\ m.recv[2] \in 1..Len(posted[m.recv[1]])
    BY DEF Matched, Types, Handles
  <1>2. \A m \in matched : /\ sent'[m.msg[1]][m.msg[2]] = sent[m.msg[1]][m.msg[2]]
                           /\ posted'[m.recv[1]][m.recv[2]] = posted[m.recv[1]][m.recv[2]]
                           /\ m.msg[2] \in 1..Len(sent'[m.msg[1]])
                           /\ m.recv[2] \in 1..Len(posted'[m.recv[1]])
    BY <1>1
  <1> QED  BY <1>2 DEF Matched, ExactlyOnce

\* The numbering and the histories when a send is started ...
LEMMA SendStarted ==
  ASSUME Good, NEW t \in Nodes, NEW h \in SH, h[1] = t, Sent(t, h),
         UNCHANGED <<rh, posted, matched>>,
         sh'[h].msg = Len(sent[t]) + 1, sh'[h].dest = sh[h].dest, sh'[h].tag = sh[h].tag,
         \A x \in SH : x # h => sh'[x] = sh[x]
  PROVE  /\ sent' \in [Nodes -> Seq(SendAsked)] /\ Len(sent[t]) + 1 \in Nat
         /\ Numbers' /\ Matched' /\ FreshSend(h)'
         /\ \A x \in SH : x # h /\ FreshSend(x) => FreshSend(x)'
         /\ \A x \in RH : FreshRecv(x) => FreshRecv(x)'
  <1>1. /\ sent' \in [Nodes -> Seq(SendAsked)]
        /\ \A n \in Nodes : Len(sent[n]) \in Nat
        /\ Len(sent'[t]) = Len(sent[t]) + 1
        /\ sent'[t][Len(sent[t]) + 1] = [dest |-> sh[h].dest, tag |-> sh[h].tag]
        /\ \A n \in Nodes : n # t => sent'[n] = sent[n]
        /\ \A n \in Nodes : \A k \in 1..Len(sent[n]) : k \in 1..Len(sent'[n]) /\ sent'[n][k] = sent[n][k]
    BY SentGrows DEF Good
  <1>2. \A x \in SH : x[1] \in Nodes /\ sh[x].msg \in Nat /\ sh[x].msg <= Len(sent[x[1]])
    BY DEF Good, Numbers, Types, SendHandle, SH
  <1>3. Numbers'
    <2>1. ASSUME NEW x \in SH PROVE sh'[x].msg <= Len(sent'[x[1]])
      <3>1. CASE x = h
        BY <1>1, <3>1
      <3>2. CASE x # h
        <4>1. sh'[x].msg = sh[x].msg /\ x[1] \in Nodes
          BY <1>2, <3>2
        <4> QED  BY <1>1, <1>2, <4>1
      <3> QED  BY <3>1, <3>2
    <2>2. \A g, x \in SH : g[1] = x[1] /\ g # x /\ sh'[g].msg = sh'[x].msg => sh'[x].msg = 0
      <3> SUFFICES ASSUME NEW g \in SH, NEW x \in SH, g[1] = x[1], g # x, sh'[g].msg = sh'[x].msg
                   PROVE  sh'[x].msg = 0
        OBVIOUS
      <3>1. CASE g = h
        BY <1>1, <1>2, <3>1
      <3>2. CASE x = h
        BY <1>1, <1>2, <3>2
      <3>3. CASE g # h /\ x # h
        BY <3>3 DEF Good, Numbers
      <3> QED  BY <3>1, <3>2, <3>3
    <2> QED  BY <2>1, <2>2 DEF Good, Numbers
  <1>4. Matched'
    BY <1>1, MatchedKept DEF Good
  <1>5. FreshSend(h)'
    <2>1. sh'[h].msg \in 1..Len(sent'[h[1]])
      BY <1>1
    <2>2. sent'[h[1]][sh'[h].msg] = [dest |-> sh'[h].dest, tag |-> sh'[h].tag]
      BY <1>1
    <2>3. \A m \in matched' : m.msg # <<h[1], sh'[h].msg>>
      <3> SUFFICES ASSUME NEW m \in matched, m.msg = <<t, Len(sent[t]) + 1>> PROVE FALSE
        OBVIOUS
      <3>1. m.msg[2] \in 1..Len(sent[m.msg[1]]) /\ m.msg[1] = t /\ m.msg[2] = Len(sent[t]) + 1
        BY DEF Good, Matched
      <3> QED  BY <1>1, <3>1
    <2> QED  BY <2>1, <2>2, <2>3 DEF FreshSend
  <1>6. ASSUME NEW x \in SH, x # h, FreshSend(x) PROVE FreshSend(x)'
    <2>1. sh'[x] = sh[x] /\ x[1] \in Nodes
      BY <1>2, <1>6
    <2> QED  BY <1>1, <1>6, <2>1 DEF FreshSend
  <1>7. \A x \in RH : FreshRecv(x) => FreshRecv(x)'
    BY DEF FreshRecv
  <1> QED  BY <1>1, <1>3, <1>4, <1>5, <1>6, <1>7

\* ... and when a receive is.
LEMMA RecvStarted ==
  ASSUME Good, NEW t \in Nodes, NEW r \in RH, r[1] = t, Posted(t, r),
         UNCHANGED <<sh, sent, matched>>,
         rh'[r].msg = Len(posted[t]) + 1, rh'[r].src = rh[r].src, rh'[r].tag = rh[r].tag,
         \A x \in RH : x # r => rh'[x] = rh[x]
  PROVE  /\ posted' \in [Nodes -> Seq(RecvAsked)] /\ Len(posted[t]) + 1 \in Nat
         /\ Numbers' /\ Matched' /\ FreshRecv(r)'
         /\ \A x \in RH : x # r /\ FreshRecv(x) => FreshRecv(x)'
         /\ \A x \in SH : FreshSend(x) => FreshSend(x)'
  <1>1. /\ posted' \in [Nodes -> Seq(RecvAsked)]
        /\ \A n \in Nodes : Len(posted[n]) \in Nat
        /\ Len(posted'[t]) = Len(posted[t]) + 1
        /\ posted'[t][Len(posted[t]) + 1] = [src |-> rh[r].src, tag |-> rh[r].tag]
        /\ \A n \in Nodes : n # t => posted'[n] = posted[n]
        /\ \A n \in Nodes : \A k \in 1..Len(posted[n]) :
             k \in 1..Len(posted'[n]) /\ posted'[n][k] = posted[n][k]
    BY PostedGrows DEF Good
  <1>2. \A x \in RH : x[1] \in Nodes /\ rh[x].msg \in Nat /\ rh[x].msg <= Len(posted[x[1]])
    BY DEF Good, Numbers, Types, RecvHandle, RH
  <1>3. Numbers'
    <2>1. ASSUME NEW x \in RH PROVE rh'[x].msg <= Len(posted'[x[1]])
      <3>1. CASE x = r
        BY <1>1, <3>1
      <3>2. CASE x # r
        <4>1. rh'[x].msg = rh[x].msg /\ x[1] \in Nodes
          BY <1>2, <3>2
        <4> QED  BY <1>1, <1>2, <4>1
      <3> QED  BY <3>1, <3>2
    <2>2. \A g, x \in RH : g[1] = x[1] /\ g # x /\ rh'[g].msg = rh'[x].msg => rh'[x].msg = 0
      <3> SUFFICES ASSUME NEW g \in RH, NEW x \in RH, g[1] = x[1], g # x, rh'[g].msg = rh'[x].msg
                   PROVE  rh'[x].msg = 0
        OBVIOUS
      <3>1. CASE g = r
        BY <1>1, <1>2, <3>1
      <3>2. CASE x = r
        BY <1>1, <1>2, <3>2
      <3>3. CASE g # r /\ x # r
        BY <3>3 DEF Good, Numbers
      <3> QED  BY <3>1, <3>2, <3>3
    <2> QED  BY <2>1, <2>2 DEF Good, Numbers
  <1>4. Matched'
    BY <1>1, MatchedKept DEF Good
  <1>5. FreshRecv(r)'
    <2>1. rh'[r].msg \in 1..Len(posted'[r[1]])
      BY <1>1
    <2>2. posted'[r[1]][rh'[r].msg] = [src |-> rh'[r].src, tag |-> rh'[r].tag]
      BY <1>1
    <2>3. \A m \in matched' : m.recv # <<r[1], rh'[r].msg>>
      <3> SUFFICES ASSUME NEW m \in matched, m.recv = <<t, Len(posted[t]) + 1>> PROVE FALSE
        OBVIOUS
      <3>1. m.recv[2] \in 1..Len(posted[m.recv[1]]) /\ m.recv[1] = t /\ m.recv[2] = Len(posted[t]) + 1
        BY DEF Good, Matched
      <3> QED  BY <1>1, <3>1
    <2> QED  BY <2>1, <2>2, <2>3 DEF FreshRecv
  <1>6. ASSUME NEW x \in RH, x # r, FreshRecv(x) PROVE FreshRecv(x)'
    <2>1. rh'[x] = rh[x] /\ x[1] \in Nodes
      BY <1>2, <1>6
    <2> QED  BY <1>1, <1>6, <2>1 DEF FreshRecv
  <1>7. \A x \in SH : FreshSend(x) => FreshSend(x)'
    BY DEF FreshSend
  <1> QED  BY <1>1, <1>3, <1>4, <1>5, <1>6, <1>7

\* The handle is queued: no receive in the channel takes the message.
LEMMA StartSendUnmatchedStep ==
  ASSUME Good, NEW t \in Nodes, StartSendUnmatched(t)
  PROVE  Good'
  <1>0. PICK h \in SH, d \in Nodes :
          h = cur[t] /\ h[1] = t /\ h[2] <= nsh[t] /\ d = sh[h].dest
    BY DEF Good, Working, StartSendUnmatched, Goto, SendLocs
  <1>1. pc[t] = "start_sh" /\ sh[h] \in SendHandle /\ cur[t] = h /\ h[1] = t /\ h[2] <= nsh[t]
        /\ d = sh[h].dest
    BY <1>0 DEF Good, StartSendUnmatched, Goto, Types
  <1>2. UNCHANGED <<rh, rq, chlock, shlock, cur, found, nsh, nrh, spurious, posted, matched>>
    BY DEF StartSendUnmatched, locks, counts
  <1>3. /\ sh' = [sh EXCEPT ![h].stat = "PEND_STRT", ![h].msg = Len(sent[t]) + 1]
        /\ sq' = [sq EXCEPT ![d] = Append(@, h)] /\ ~InQueue(sq[d], h) /\ chlock[d] = NoNode
        /\ pc' = [pc EXCEPT ![t] = AfterStartSend(h)]
        /\ Sent(t, h)
    BY <1>0 DEF StartSendUnmatched, Goto
  <1>4. /\ AfterStartSend(h) \in {"enter_wait_sh", "idle"}
        /\ AfterStartSend(h) = "enter_wait_sh" <=> sh[h].type = "SEND"
    BY DEF AfterStartSend
  <1>5. /\ sq' \in [Nodes -> Seq(SH)]
        /\ \A n \in Nodes, x \in SH : InQueue(sq'[n], x) <=> InQueue(sq[n], x) \/ (n = d /\ x = h)
        /\ \A n \in Nodes : NoDup(sq'[n])
    <2>1. sq \in [Nodes -> Seq(SH)] /\ NoDup(sq[d]) /\ \A n \in Nodes : NoDup(sq[n])
      BY <1>1 DEF Good, Types, Queues
    <2>2. /\ Append(sq[d], h) \in Seq(SH) /\ NoDup(Append(sq[d], h))
          /\ \A x : InQueue(Append(sq[d], h), x) <=> InQueue(sq[d], x) \/ x = h
      BY <1>3, <2>1, Appended
    <2>3. sq'[d] = Append(sq[d], h) /\ \A n \in Nodes : n # d => sq'[n] = sq[n]
      BY <1>3, <2>1
    <2> QED  BY <1>3, <2>1, <2>2, <2>3
  <1>6. /\ sh'[h].stat = "PEND_STRT" /\ sh'[h].msg = Len(sent[t]) + 1
        /\ sh'[h].type = sh[h].type /\ sh'[h].dest = d /\ sh'[h].tag = sh[h].tag
        /\ sh'[h].live = sh[h].live /\ sh'[h].held = sh[h].held
        /\ \A x \in SH : x # h => sh'[x] = sh[x]
    BY <1>1, <1>3 DEF Good, Types, SendHandle
  <1>7. /\ sent' \in [Nodes -> Seq(SendAsked)] /\ Len(sent[t]) + 1 \in Nat
        /\ Numbers' /\ Matched' /\ FreshSend(h)'
        /\ \A x \in SH : x # h /\ FreshSend(x) => FreshSend(x)'
        /\ \A x \in RH : FreshRecv(x) => FreshRecv(x)'
    BY <1>1, <1>2, <1>3, <1>6, SendStarted
  <1>8. pc'[t] = AfterStartSend(h) /\ \A u \in Nodes : u # t => pc'[u] = pc[u]
    BY <1>3 DEF Good, Types
  <1>9. Types'
    <2>1. pc' \in [Nodes -> Locations]
      BY <1>3, <1>4 DEF Good, Types, Locations, SendLocs
    <2>2. sh' \in [SH -> SendHandle]
      BY <1>1, <1>3, <1>7 DEF Good, Types, SendHandle, Stats, PEND
    <2> QED  BY <1>2, <1>7, <1>5, <2>1, <2>2 DEF Good, Types
  <1>10. \A u \in Nodes : u # t /\ pc[u] \in SendLocs => cur[u] # h
    BY <1>1 DEF Good, Working
  <1>11. \A u \in Nodes : pc[u] = "fill_sh" => found[u] \in SH /\ found[u] # h
    BY <1>0, <1>3, BoundsAssumption DEF Good, Filling, FillingSend
  <1>12. NoFault'
    BY <1>4, <1>8 DEF Good, NoFault
  <1>13. Working'
    BY <1>1, <1>2, <1>4, <1>6, <1>8, <1>10 DEF Good, Working, SendLocs, RecvLocs
  <1>14. Filling'
    <2>1. ASSUME NEW u \in Nodes, pc'[u] = "fill_rh" PROVE FillingRecv(u)'
      <3>1. u # t /\ pc[u] = "fill_rh" /\ sh'[cur[u]] = sh[cur[u]]
        BY <1>4, <1>6, <1>8, <1>10, <2>1 DEF Good, Working, SendLocs
      <3>2. FillingRecv(u)
        BY <3>1 DEF Good, Filling
      <3> QED  BY <1>2, <3>1, <3>2 DEF FillingRecv
    <2>2. ASSUME NEW u \in Nodes, pc'[u] = "fill_sh" PROVE FillingSend(u)'
      <3>1. u # t /\ pc[u] = "fill_sh"
        BY <1>4, <1>8, <2>2
      <3>2. found[u] \in SH /\ sh'[found[u]] = sh[found[u]]
        BY <1>6, <1>11, <3>1
      <3>3. ~InQueue(sq'[u], found[u])
        BY <1>5, <1>11, <3>1 DEF Good, Filling, FillingSend
      <3>4. FillingSend(u)
        BY <3>1 DEF Good, Filling
      <3> QED  BY <1>2, <3>1, <3>2, <3>3, <3>4 DEF FillingSend
    <2> QED  BY <2>1, <2>2 DEF Filling
  <1>15. Queues'
    BY <1>1, <1>2, <1>5, <1>6 DEF Good, Queues
  <1>16. Unborn'
    BY <1>1, <1>2, <1>6 DEF Good, Unborn
  <1>17. SendStates'
    <2> SUFFICES ASSUME NEW u \in Nodes
                 PROVE  /\ pc'[u] = "start_sh" => sh'[cur[u]].stat \in {"CREATE", "FREE"}
                        /\ pc'[u] \in {"wait_sh", "test_sh", "free_test_sh"} =>
                             \/ sh'[cur[u]].stat \in Going
                             \/ sh'[cur[u]].type = "PERSISTENT" /\ \A n \in Nodes : ~InQueue(sq'[n], cur[u])
                        /\ pc'[u] = "enter_wait_sh" /\ sh'[cur[u]].type = "SEND" => sh'[cur[u]].stat \in Going
      BY <1>2 DEF SendStates
    <2>1. CASE u = t
      BY <1>1, <1>4, <1>6, <1>8, <2>1 DEF Going, PEND
    <2>2. CASE u # t
      <3>1. pc[u] \in SendLocs => cur[u] \in SH /\ cur[u] # h /\ sh'[cur[u]] = sh[cur[u]]
        BY <1>6, <1>10, <2>2 DEF Good, Working
      <3> QED  BY <1>5, <1>8, <2>2, <3>1 DEF Good, SendStates, SendLocs
    <2> QED  BY <2>1, <2>2
  <1>18. RecvStates'
    BY <1>2, <1>4, <1>8 DEF Good, RecvStates
  <1>19. NoMissed'
    <2> SUFFICES ASSUME NEW n \in Nodes, NEW x \in SH, NEW r \in RH, InQueue(sq'[n], x),
                        InQueue(rq[n], r), sh'[x].stat \in PEND, rh[r].stat \in PEND
                 PROVE  ~Fits(rh[r], x[1], sh'[x].tag)
      BY <1>2 DEF NoMissed
    <2>1. CASE x = h
      <3>1. n = d
        BY <1>1, <1>5, <2>1 DEF Good, Queues
      <3>2. First(rq[d], rq_cmp(h)) = 0 /\ rq[d] \in Seq(RH)
        BY <1>0 DEF StartSendUnmatched, Good, Types
      <3>3. \A i \in 1..Len(rq[d]) : rq[d][i] \notin rq_cmp(h)
        BY <3>2, FirstIs
      <3>4. r \notin rq_cmp(h)
        BY <3>1, <3>3 DEF InQueue
      <3> QED  BY <1>6, <2>1, <3>4 DEF rq_cmp
    <2>2. CASE x # h
      BY <1>5, <1>6, <2>2 DEF Good, NoMissed
    <2> QED  BY <2>1, <2>2
  <1>20. NoLostWakeup'
    <2>1. \A u \in Nodes : pc'[u] = "sleep_sh" => u # t /\ pc[u] = "sleep_sh" /\ sh'[cur[u]] = sh[cur[u]]
      BY <1>4, <1>6, <1>8, <1>10 DEF Good, Working, SendLocs
    <2> QED  BY <1>2, <1>4, <1>8, <2>1 DEF Good, NoLostWakeup
  <1>21. Fresh'
    <2>1. \A n \in Nodes, x \in SH : InQueue(sq'[n], x) /\ sh'[x].stat \in PEND => FreshSend(x)'
      BY <1>5, <1>6, <1>7 DEF Good, Fresh
    <2>2. \A n \in Nodes, r \in RH : InQueue(rq'[n], r) /\ rh'[r].stat \in PEND => FreshRecv(r)'
      BY <1>2, <1>7 DEF Good, Fresh
    <2>3. \A u \in Nodes : pc'[u] = "fill_rh" => FreshSend(cur[u])' /\ FreshRecv(found[u])'
      BY <1>2, <1>4, <1>8, <1>10, <1>7 DEF Good, Fresh, Working, Filling, FillingRecv, SendLocs
    <2>4. \A u \in Nodes : pc'[u] = "fill_sh" => FreshSend(found[u])' /\ FreshRecv(cur[u])'
      BY <1>2, <1>4, <1>8, <1>11, <1>7 DEF Good, Fresh, Working, RecvLocs
    <2> QED  BY <1>2, <2>1, <2>2, <2>3, <2>4 DEF Fresh, FreshSend, FreshRecv
  <1>22. \A x \in SH : SendBeingFilled(x) => SendBeingFilled(x)'
    BY <1>1, <1>2, <1>8 DEF SendBeingFilled
  <1>23. Answered'
    <2>1. \A u \in Nodes :
            /\ pc'[u] \in SendLocs /\ sh'[cur'[u]].live =>
                 sh'[cur'[u]].held \/ (sh'[cur'[u]].type = "SEND" /\ pc'[u] \in BlockingSend)
            /\ pc'[u] \in RecvLocs /\ rh'[cur'[u]].live =>
                 rh'[cur'[u]].held \/ (rh'[cur'[u]].type = "RECV" /\ pc'[u] \in BlockingRecv)
      <3> SUFFICES ASSUME NEW u \in Nodes
                   PROVE  /\ pc'[u] \in SendLocs /\ sh'[cur[u]].live =>
                             sh'[cur[u]].held \/ (sh'[cur[u]].type = "SEND" /\ pc'[u] \in BlockingSend)
                          /\ pc'[u] \in RecvLocs /\ rh[cur[u]].live =>
                             rh[cur[u]].held \/ (rh[cur[u]].type = "RECV" /\ pc'[u] \in BlockingRecv)
        BY <1>2
      <3>1. CASE u = t
        BY <1>1, <1>4, <1>6, <1>8, <3>1 DEF Good, Answered, SendLocs, RecvLocs, BlockingSend
      <3>2. CASE u # t
        BY <1>6, <1>8, <1>10, <3>2 DEF Good, Answered, Working
      <3> QED  BY <3>1, <3>2
    <2>2. ASSUME NEW x \in SH
          PROVE  /\ sh'[x].type # "PERSISTENT" /\ sh'[x].stat \in PEND =>
                      InQueue(sq'[sh'[x].dest], x) \/ SendBeingFilled(x)'
                 /\ LeftBehind(x)' => ~sh'[x].held /\ ~(pc'[x[1]] \in SendLocs /\ cur'[x[1]] = x)
                 /\ sh'[x].live => sh'[x].held \/ (pc'[x[1]] \in SendLocs /\ cur'[x[1]] = x) \/ LeftBehind(x)'
                 /\ sh'[x].held => sh'[x].type # "SEND"
      <3>1. CASE x = h
        BY <1>1, <1>2, <1>4, <1>5, <1>6, <1>8, <3>1 DEF Good, Answered, LeftBehind, SendLocs
      <3>2. CASE x # h
        <4>1. sh'[x] = sh[x] /\ x[1] \in Nodes
          BY <1>6, <3>2 DEF SH
        <4>2. sh[x].type # "PERSISTENT" /\ sh[x].stat \in PEND => InQueue(sq'[sh[x].dest], x) \/ SendBeingFilled(x)'
          <5>1. sh[x].stat \in PEND => sh[x].dest \in Nodes
            BY DEF Good, Unborn, NoSend, PEND
          <5> QED  BY <1>5, <1>22, <5>1 DEF Good, Answered
        <4> QED  BY <1>1, <1>2, <1>8, <3>2, <4>1, <4>2 DEF Good, Answered, LeftBehind
      <3> QED  BY <3>1, <3>2
    <2>3. ASSUME NEW x \in RH
          PROVE  /\ rh'[x].live => rh'[x].held \/ (pc'[x[1]] \in RecvLocs /\ cur'[x[1]] = x)
                 /\ rh'[x].held => rh'[x].type # "RECV"
      BY <1>1, <1>2, <1>8 DEF Good, Answered, RecvLocs, RH
    <2> QED  BY <2>1, <2>2, <2>3 DEF Answered
  <1> QED  BY <1>9, <1>12, <1>13, <1>14, <1>15, <1>16, <1>17, <1>18, <1>19, <1>20, <1>7, <1>21,
              <1>23 DEF Good

\* The first receive that takes the message leaves the queue, and the channel stays locked.
LEMMA StartSendMatchedStep ==
  ASSUME Good, NEW t \in Nodes, StartSendMatched(t)
  PROVE  Good'
  <1>0. PICK h \in SH, d \in Nodes :
          h = cur[t] /\ h[1] = t /\ h[2] <= nsh[t] /\ d = sh[h].dest
    BY DEF Good, Working, StartSendMatched, Goto, SendLocs
  <1>1. pc[t] = "start_sh" /\ sh[h] \in SendHandle /\ cur[t] = h /\ h[1] = t /\ h[2] <= nsh[t]
        /\ d = sh[h].dest
    BY <1>0 DEF Good, StartSendMatched, Goto, Types
  <1>2. UNCHANGED <<rh, sq, shlock, cur, nsh, nrh, spurious, posted, matched>>
    BY DEF StartSendMatched, counts
  <1> DEFINE i == First(rq[d], rq_cmp(h))
  <1>3. /\ sh' = [sh EXCEPT ![h].stat = "MATCH", ![h].msg = Len(sent[t]) + 1]
        /\ i # 0 /\ chlock[d] = NoNode
        /\ found' = [found EXCEPT ![t] = rq[d][i]]
        /\ rq' = [rq EXCEPT ![d] = Without(@, i)]
        /\ chlock' = [chlock EXCEPT ![d] = t]
        /\ pc' = [pc EXCEPT ![t] = "fill_rh"]
        /\ Sent(t, h)
    BY <1>0 DEF StartSendMatched, Goto
  <1>4. rq \in [Nodes -> Seq(RH)] /\ \A n \in Nodes : NoDup(rq[n])
    BY DEF Good, Types, Queues
  <1>5. i \in 1..Len(rq[d]) /\ rq[d][i] \in rq_cmp(h)
    BY <1>3, <1>4, FirstIs
  <1>6. PICK r \in RH : r = rq[d][i]
    BY <1>5 DEF rq_cmp
  <1>7. rh[r].stat \in PEND /\ Fits(rh[r], t, sh[h].tag)
    BY <1>1, <1>5, <1>6 DEF rq_cmp
  <1>8. /\ Without(rq[d], i) \in Seq(RH) /\ NoDup(Without(rq[d], i)) /\ InQueue(rq[d], r)
        /\ \A x : InQueue(Without(rq[d], i), x) <=> InQueue(rq[d], x) /\ x # r
    BY <1>4, <1>5, <1>6, Removed
  <1> HIDE DEF i
  <1>9. rq'[d] = Without(rq[d], i) /\ \A n \in Nodes : n # d => rq'[n] = rq[n]
    BY <1>3, <1>4
  <1>10. /\ rq' \in [Nodes -> Seq(RH)]
         /\ \A n \in Nodes, x \in RH : InQueue(rq'[n], x) <=> InQueue(rq[n], x) /\ ~(n = d /\ x = r)
         /\ \A n \in Nodes : NoDup(rq'[n])
    BY <1>3, <1>4, <1>8, <1>9
  <1>11. r[1] = d
    BY <1>8 DEF Good, Queues
  <1>12. /\ sh'[h].stat = "MATCH" /\ sh'[h].msg = Len(sent[t]) + 1
         /\ sh'[h].type = sh[h].type /\ sh'[h].dest = d /\ sh'[h].tag = sh[h].tag
         /\ sh'[h].live = sh[h].live /\ sh'[h].held = sh[h].held
         /\ \A x \in SH : x # h => sh'[x] = sh[x]
    BY <1>1, <1>3 DEF Good, Types, SendHandle
  <1>13. /\ sent' \in [Nodes -> Seq(SendAsked)] /\ Len(sent[t]) + 1 \in Nat
         /\ Numbers' /\ Matched' /\ FreshSend(h)'
         /\ \A x \in SH : x # h /\ FreshSend(x) => FreshSend(x)'
         /\ \A x \in RH : FreshRecv(x) => FreshRecv(x)'
    <2>1. Sent(t, h)
      BY <1>3
    <2>2. UNCHANGED <<rh, posted, matched>>
      BY <1>2
    <2> QED  BY <1>1, <1>12, <2>1, <2>2, SendStarted
  <1>14. /\ pc'[t] = "fill_rh" /\ \A u \in Nodes : u # t => pc'[u] = pc[u]
         /\ found'[t] = r /\ \A u \in Nodes : u # t => found'[u] = found[u]
         /\ chlock'[d] = t /\ \A n \in Nodes : n # d => chlock'[n] = chlock[n]
    BY <1>3, <1>6 DEF Good, Types
  <1>15. Types'
    <2>1. pc' \in [Nodes -> Locations] /\ found' \in [Nodes -> Handles]
          /\ chlock' \in [Nodes -> Nodes \cup {NoNode}]
      <3>1. r \in Handles
        BY BoundsAssumption DEF RH, Handles
      <3> QED  BY <1>3, <1>6, <3>1 DEF Good, Types, Locations, SendLocs
    <2>2. sh' \in [SH -> SendHandle]
      BY <1>1, <1>3, <1>13 DEF Good, Types, SendHandle, Stats, PEND
    <2> QED  BY <1>2, <1>13, <1>10, <2>1, <2>2 DEF Good, Types
  <1>16. \A u \in Nodes : u # t /\ pc[u] \in SendLocs => cur[u] \in SH /\ cur[u] # h
    BY <1>1 DEF Good, Working
  <1>17. \A u \in Nodes : pc[u] = "fill_sh" => u # t /\ u # d /\ found[u] \in SH /\ found[u] # h
    BY <1>1, <1>3, BoundsAssumption DEF Good, Filling, FillingSend
  <1>18. \A u \in Nodes : pc[u] = "fill_rh" => u # t /\ found[u] \in RH /\ found[u][1] # d
    BY <1>1, <1>3, BoundsAssumption DEF Good, Filling, FillingRecv
  <1>19. NoFault'
    BY <1>14 DEF Good, NoFault
  <1>20. Working'
    BY <1>1, <1>2, <1>12, <1>14, <1>16 DEF Good, Working, SendLocs, RecvLocs
  <1>21. Filling'
    <2>1. FillingRecv(t)'
      <3>1. Fits(rh'[found'[t]], t, sh'[cur'[t]].tag)
        BY <1>1, <1>2, <1>7, <1>12, <1>14
      <3>2. rh'[found'[t]].stat \notin {"NONE", "CREATE"}
        BY <1>2, <1>7, <1>14 DEF PEND
      <3> QED  BY <1>1, <1>2, <1>10, <1>11, <1>12, <1>14, <3>1, <3>2 DEF FillingRecv
    <2>2. ASSUME NEW u \in Nodes, u # t, pc'[u] = "fill_rh" PROVE FillingRecv(u)'
      <3>1. pc[u] = "fill_rh" /\ found'[u] = found[u]
        BY <1>14, <2>2
      <3>2. FillingRecv(u)
        BY <3>1 DEF Good, Filling
      <3>3. sh'[cur[u]] = sh[cur[u]]
        BY <1>12, <1>16, <2>2, <3>1 DEF SendLocs
      <3>4. found[u][1] \in Nodes /\ found[u][1] # d /\ found[u] \in RH
        BY <1>18, <3>1 DEF RH
      <3>5. chlock'[found[u][1]] = chlock[found[u][1]] /\ rq'[found[u][1]] = rq[found[u][1]]
        BY <1>9, <1>14, <3>4
      <3> QED  BY <1>2, <3>1, <3>2, <3>3, <3>5 DEF FillingRecv
    <2>3. ASSUME NEW u \in Nodes, u # t, pc'[u] = "fill_sh" PROVE FillingSend(u)'
      <3>1. pc[u] = "fill_sh" /\ found'[u] = found[u]
        BY <1>14, <2>3
      <3>2. FillingSend(u)
        BY <3>1 DEF Good, Filling
      <3>3. sh'[found[u]] = sh[found[u]] /\ chlock'[u] = chlock[u]
        BY <1>12, <1>14, <1>17, <3>1
      <3> QED  BY <1>2, <3>1, <3>2, <3>3 DEF FillingSend
    <2>4. pc'[t] = "fill_rh"
      BY <1>14
    <2> QED  BY <2>1, <2>2, <2>3, <2>4 DEF Filling
  <1>22. Queues'
    <2>1. \A x \in SH : /\ sh'[x].dest = sh[x].dest
                        /\ sh[x].stat \notin {"NONE", "CREATE"} => sh'[x].stat \notin {"NONE", "CREATE"}
      BY <1>1, <1>12
    <2>2. Queues
      BY DEF Good
    <2>3. \A n \in Nodes : /\ NoDup(sq'[n]) /\ NoDup(rq'[n])
                           /\ \A x \in RH : InQueue(rq'[n], x) => InQueue(rq[n], x)
      BY <1>2, <1>10, <2>2 DEF Queues
    <2>4. ASSUME NEW n \in Nodes
          PROVE  /\ \A x \in SH : InQueue(sq'[n], x) => sh'[x].dest = n /\ sh'[x].stat \notin {"NONE", "CREATE"}
                 /\ \A x \in RH : InQueue(rq'[n], x) => x[1] = n /\ rh'[x].stat \notin {"NONE", "CREATE"}
      BY <1>2, <2>1, <2>2, <2>3 DEF Queues
    <2> QED  BY <2>3, <2>4 DEF Queues
  <1>23. Unborn'
    BY <1>1, <1>2, <1>12 DEF Good, Unborn
  <1>24. SendStates'
    <2> SUFFICES ASSUME NEW u \in Nodes, u # t
                 PROVE  /\ pc'[u] = "start_sh" => sh'[cur[u]].stat \in {"CREATE", "FREE"}
                        /\ pc'[u] \in {"wait_sh", "test_sh", "free_test_sh"} =>
                             \/ sh'[cur[u]].stat \in Going
                             \/ sh'[cur[u]].type = "PERSISTENT" /\ \A n \in Nodes : ~InQueue(sq'[n], cur[u])
                        /\ pc'[u] = "enter_wait_sh" /\ sh'[cur[u]].type = "SEND" => sh'[cur[u]].stat \in Going
      BY <1>2, <1>14 DEF SendStates
    <2>1. pc[u] \in SendLocs => sh'[cur[u]] = sh[cur[u]]
      BY <1>12, <1>16
    <2> QED  BY <1>2, <1>14, <2>1 DEF Good, SendStates, SendLocs
  <1>25. RecvStates'
    BY <1>2, <1>14 DEF Good, RecvStates
  <1>26. NoMissed'
    BY <1>2, <1>10, <1>12 DEF Good, NoMissed, PEND
  <1>27. NoLostWakeup'
    <2>1. \A u \in Nodes : pc'[u] = "sleep_sh" => u # t /\ pc[u] = "sleep_sh" /\ sh'[cur[u]] = sh[cur[u]]
      BY <1>12, <1>14, <1>16 DEF SendLocs
    <2> QED  BY <1>2, <1>14, <2>1 DEF Good, NoLostWakeup
  <1>28. Fresh'
    <2>0. Fresh
      BY DEF Good
    <2>1. \A n \in Nodes, x \in SH : InQueue(sq'[n], x) /\ sh'[x].stat \in PEND => FreshSend(x)'
      <3>1. \A x \in SH : sh'[x].stat \in PEND => x # h /\ sh'[x] = sh[x]
        BY <1>12 DEF PEND
      <3> QED  BY <1>2, <1>13, <2>0, <3>1 DEF Fresh
    <2>2. \A n \in Nodes, x \in RH : InQueue(rq'[n], x) /\ rh'[x].stat \in PEND => FreshRecv(x)'
      <3>1. \A n \in Nodes, x \in RH : InQueue(rq'[n], x) => InQueue(rq[n], x)
        BY <1>10
      <3> QED  BY <1>2, <1>13, <2>0, <3>1 DEF Fresh
    <2>3. FreshRecv(r)'
      BY <1>7, <1>8, <1>13 DEF Good, Fresh
    <2>4. ASSUME NEW u \in Nodes PROVE pc'[u] = "fill_rh" => (FreshSend(cur[u]) /\ FreshRecv(found[u]))'
      <3>1. CASE u = t
        BY <1>1, <1>2, <1>14, <1>13, <2>3, <3>1
      <3>2. CASE u # t
        BY <1>2, <1>14, <1>16, <1>18, <1>13, <3>2 DEF Good, Fresh, SendLocs
      <3> QED  BY <3>1, <3>2
    <2>5. ASSUME NEW u \in Nodes PROVE pc'[u] = "fill_sh" => (FreshSend(found[u]) /\ FreshRecv(cur[u]))'
      BY <1>2, <1>14, <1>17, <1>13 DEF Good, Fresh, Working, RecvLocs
    <2> QED  BY <2>1, <2>2, <2>4, <2>5 DEF Fresh
  <1>29. \A x \in SH : SendBeingFilled(x) => SendBeingFilled(x)'
    BY <1>1, <1>2, <1>14, <1>17 DEF SendBeingFilled
  <1>30. Answered'
    <2>1. \A u \in Nodes :
            /\ pc'[u] \in SendLocs /\ sh'[cur'[u]].live =>
                 sh'[cur'[u]].held \/ (sh'[cur'[u]].type = "SEND" /\ pc'[u] \in BlockingSend)
            /\ pc'[u] \in RecvLocs /\ rh'[cur'[u]].live =>
                 rh'[cur'[u]].held \/ (rh'[cur'[u]].type = "RECV" /\ pc'[u] \in BlockingRecv)
      <3> SUFFICES ASSUME NEW u \in Nodes
                   PROVE  /\ pc'[u] \in SendLocs /\ sh'[cur[u]].live =>
                             sh'[cur[u]].held \/ (sh'[cur[u]].type = "SEND" /\ pc'[u] \in BlockingSend)
                          /\ pc'[u] \in RecvLocs /\ rh[cur[u]].live =>
                             rh[cur[u]].held \/ (rh[cur[u]].type = "RECV" /\ pc'[u] \in BlockingRecv)
        BY <1>2
      <3>1. CASE u = t
        BY <1>1, <1>12, <1>14, <3>1 DEF Good, Answered, SendLocs, RecvLocs, BlockingSend
      <3>2. CASE u # t
        BY <1>12, <1>14, <1>16, <3>2 DEF Good, Answered
      <3> QED  BY <3>1, <3>2
    <2>2. ASSUME NEW x \in SH
          PROVE  /\ sh'[x].type # "PERSISTENT" /\ sh'[x].stat \in PEND =>
                      InQueue(sq'[sh'[x].dest], x) \/ SendBeingFilled(x)'
                 /\ LeftBehind(x)' => ~sh'[x].held /\ ~(pc'[x[1]] \in SendLocs /\ cur'[x[1]] = x)
                 /\ sh'[x].live => sh'[x].held \/ (pc'[x[1]] \in SendLocs /\ cur'[x[1]] = x) \/ LeftBehind(x)'
                 /\ sh'[x].held => sh'[x].type # "SEND"
      <3>1. CASE x = h
        BY <1>1, <1>2, <1>12, <1>14, <3>1 DEF Good, Answered, LeftBehind, SendLocs, PEND
      <3>2. CASE x # h
        <4>1. sh'[x] = sh[x] /\ x[1] \in Nodes
          BY <1>12, <3>2 DEF SH
        <4> QED  BY <1>1, <1>2, <1>14, <1>29, <3>2, <4>1 DEF Good, Answered, LeftBehind
      <3> QED  BY <3>1, <3>2
    <2>3. ASSUME NEW x \in RH
          PROVE  /\ rh'[x].live => rh'[x].held \/ (pc'[x[1]] \in RecvLocs /\ cur'[x[1]] = x)
                 /\ rh'[x].held => rh'[x].type # "RECV"
      BY <1>1, <1>2, <1>14 DEF Good, Answered, RecvLocs, RH
    <2> QED  BY <2>1, <2>2, <2>3 DEF Answered
  <1> QED  BY <1>15, <1>19, <1>20, <1>21, <1>22, <1>23, <1>24, <1>25, <1>26, <1>27, <1>13, <1>28,
              <1>30 DEF Good

\* A message meets a receive: neither had met anything before, and they fit.
LEMMA NewMatch ==
  ASSUME Good, NEW h \in SH, NEW r \in RH, FreshSend(h), FreshRecv(r), sh[h].dest = r[1],
         Fits(rh[r], h[1], sh[h].tag), NEW data \in {"intact", "overwritten"},
         matched' = matched \cup {[msg |-> <<h[1], sh[h].msg>>, recv |-> <<r[1], rh[r].msg>>,
                                   data |-> data]},
         UNCHANGED <<sent, posted>>,
         \A x \in SH : sh'[x].msg = sh[x].msg /\ (x # h => sh'[x] = sh[x]),
         \A x \in RH : rh'[x].msg = rh[x].msg /\ (x # r => rh'[x] = rh[x])
  PROVE  /\ matched' \subseteq [msg : Handles, recv : Handles, data : {"intact", "overwritten"}]
         /\ Matched' /\ Numbers'
         /\ \A x \in SH : x # h /\ FreshSend(x) => FreshSend(x)'
         /\ \A x \in RH : x # r /\ FreshRecv(x) => FreshRecv(x)'
  <1>1. PICK new : /\ new = [msg |-> <<h[1], sh[h].msg>>, recv |-> <<r[1], rh[r].msg>>, data |-> data]
                   /\ new.msg = <<h[1], sh[h].msg>> /\ new.recv = <<r[1], rh[r].msg>>
                   /\ matched' = matched \cup {new}
    OBVIOUS
  <1>2. h[1] \in Nodes /\ r[1] \in Nodes /\ sh[h].msg \in Nat /\ rh[r].msg \in Nat
    BY DEF SH, RH, Good, Types, SendHandle, RecvHandle
  <1>3. matched' \subseteq [msg : Handles, recv : Handles, data : {"intact", "overwritten"}]
    <2>1. new \in [msg : Handles, recv : Handles, data : {"intact", "overwritten"}]
      BY <1>1, <1>2 DEF Handles
    <2> QED  BY <1>1, <2>1 DEF Good, Types
  <1>4. \A m \in matched : m.msg # new.msg /\ m.recv # new.recv
    BY <1>1 DEF FreshSend, FreshRecv
  <1>5. /\ new.msg[1] = h[1] /\ new.msg[2] = sh[h].msg /\ new.recv[1] = r[1] /\ new.recv[2] = rh[r].msg
        /\ sent[h[1]][sh[h].msg].dest = r[1] /\ sent[h[1]][sh[h].msg].tag = sh[h].tag
        /\ posted[r[1]][rh[r].msg].src = rh[r].src /\ posted[r[1]][rh[r].msg].tag = rh[r].tag
        /\ sh[h].msg \in 1..Len(sent[h[1]]) /\ rh[r].msg \in 1..Len(posted[r[1]])
    BY <1>1 DEF FreshSend, FreshRecv
  <1>6. /\ sent[new.msg[1]][new.msg[2]].dest = new.recv[1]
        /\ Fits(posted[new.recv[1]][new.recv[2]], new.msg[1], sent[new.msg[1]][new.msg[2]].tag)
        /\ new.msg[2] \in 1..Len(sent[new.msg[1]])
        /\ new.recv[2] \in 1..Len(posted[new.recv[1]])
    BY <1>5 DEF Fits
  <1>7. Matched'
    <2>1. ExactlyOnce /\ \A m \in matched : /\ m.msg[2] \in 1..Len(sent[m.msg[1]])
                                            /\ m.recv[2] \in 1..Len(posted[m.recv[1]])
      BY DEF Good, Matched
    <2>2. \A a, b \in matched \cup {new} :
            /\ a.msg = b.msg <=> a.recv = b.recv
            /\ sent[a.msg[1]][a.msg[2]].dest = a.recv[1]
            /\ Fits(posted[a.recv[1]][a.recv[2]], a.msg[1], sent[a.msg[1]][a.msg[2]].tag)
      BY <1>4, <1>6, <2>1 DEF ExactlyOnce
    <2>3. ExactlyOnce'
      BY <1>1, <2>2 DEF ExactlyOnce
    <2>4. \A m \in matched \cup {new} : /\ m.msg[2] \in 1..Len(sent[m.msg[1]])
                                        /\ m.recv[2] \in 1..Len(posted[m.recv[1]])
      BY <1>6, <2>1
    <2> QED  BY <1>1, <2>3, <2>4 DEF Matched
  <1>8. Numbers'
    BY DEF Good, Numbers
  <1>9. ASSUME NEW x \in SH, x # h, FreshSend(x) PROVE FreshSend(x)'
    <2>1. new.msg # <<x[1], sh[x].msg>>
      <3> SUFFICES ASSUME h[1] = x[1], sh[h].msg = sh[x].msg PROVE FALSE
        BY <1>1
      <3>1. sh[x].msg = 0
        BY <1>9 DEF Good, Numbers
      <3> QED  BY <1>9, <3>1 DEF FreshSend
    <2> QED  BY <1>1, <1>9, <2>1 DEF FreshSend
  <1>10. ASSUME NEW x \in RH, x # r, FreshRecv(x) PROVE FreshRecv(x)'
    <2>1. new.recv # <<x[1], rh[x].msg>>
      <3> SUFFICES ASSUME r[1] = x[1], rh[r].msg = rh[x].msg PROVE FALSE
        BY <1>1
      <3>1. rh[x].msg = 0
        BY <1>10 DEF Good, Numbers
      <3> QED  BY <1>10, <3>1 DEF FreshRecv
    <2> QED  BY <1>1, <1>10, <2>1 DEF FreshRecv
  <1> QED  BY <1>3, <1>7, <1>8, <1>9, <1>10

\* The message is copied into the receive that was taken out of the queue.
LEMMA FillRecvStep ==
  ASSUME Good, NEW t \in Nodes, FillRecv(t)
  PROVE  Good'
  <1>1. pc[t] = "fill_rh" /\ FillingRecv(t) /\ FreshSend(cur[t]) /\ FreshRecv(found[t])
    BY DEF FillRecv, Good, Filling, Fresh
  <1>2. PICK h \in SH, r \in RH : h = cur[t] /\ r = found[t] /\ h[1] = t
    BY <1>1 DEF Good, Working, SendLocs, FillingRecv
  <1>3. /\ cur[t] = h /\ found[t] = r /\ h[1] = t
        /\ chlock[r[1]] = t /\ rh[r].stat \notin {"NONE", "CREATE"}
        /\ sh[h].dest = r[1] /\ sh[h].stat = "MATCH" /\ Fits(rh[r], t, sh[h].tag)
        /\ FreshSend(h) /\ FreshRecv(r)
    BY <1>1, <1>2 DEF FillingRecv
  <1>4. PICK d \in Nodes : d = r[1]
    BY DEF RH
  <1>5. UNCHANGED <<sh, sq, rq, shlock, cur, found, nsh, nrh, spurious, sent, posted>>
    BY DEF FillRecv, queues, counts
  <1>6. /\ rh' = [rh EXCEPT ![r].src = t, ![r].tag = sh[h].tag,
                            ![r].stat = IF @ \in {"PEND_WAIT", "PEND_STRT"} THEN "MATCH" ELSE @]
        /\ chlock' = [chlock EXCEPT ![d] = NoNode]
    BY <1>2, <1>4 DEF FillRecv
  <1>7. matched' = matched \cup {[msg |-> <<h[1], sh[h].msg>>, recv |-> <<r[1], rh[r].msg>>,
                                  data |-> "intact"]}
    BY <1>2, <1>4 DEF FillRecv
  <1>8. pc' = [n \in Nodes |->
                 IF n = t THEN AfterStartSend(h)
                 ELSE IF rh[r].stat = "PEND_WAIT" /\ pc[n] = "sleep_rh" /\ cur[n] = r
                      THEN "wake_rh" ELSE pc[n]]
    BY <1>2 DEF FillRecv
  <1>9. rh \in [RH -> RecvHandle] /\ rh[r] \in RecvHandle /\ sh[h] \in SendHandle
    BY DEF Good, Types
  <1>10. /\ rh'[r].stat \in {"MATCH", "FREE"} /\ rh'[r].msg = rh[r].msg
         /\ rh[r].stat \in Going => rh'[r].stat = "MATCH"
         /\ rh'[r].type = rh[r].type /\ rh'[r].live = rh[r].live /\ rh'[r].held = rh[r].held
         /\ \A x \in RH : x # r => rh'[x] = rh[x]
    <2>1. rh[r].stat \in {"MATCH", "FREE", "PEND_WAIT", "PEND_STRT"}
      BY <1>3, <1>9 DEF RecvHandle, Stats, PEND
    <2> QED  BY <1>6, <1>9, <2>1 DEF RecvHandle, Going, PEND
  <1>11. /\ matched' \subseteq [msg : Handles, recv : Handles, data : {"intact", "overwritten"}]
         /\ Matched' /\ Numbers'
         /\ \A x \in SH : x # h /\ FreshSend(x) => FreshSend(x)'
         /\ \A x \in RH : x # r /\ FreshRecv(x) => FreshRecv(x)'
    <2>1. \A x \in SH : sh'[x].msg = sh[x].msg /\ (x # h => sh'[x] = sh[x])
      BY <1>5
    <2>2. \A x \in RH : rh'[x].msg = rh[x].msg /\ (x # r => rh'[x] = rh[x])
      BY <1>10
    <2>3. UNCHANGED <<sent, posted>>
      BY <1>5
    <2> QED  BY <1>3, <1>7, <2>1, <2>2, <2>3, NewMatch
  <1>12. /\ AfterStartSend(h) \in {"enter_wait_sh", "idle"}
         /\ AfterStartSend(h) = "enter_wait_sh" <=> sh[h].type = "SEND"
    BY DEF AfterStartSend
  <1>13. /\ pc'[t] = AfterStartSend(h)
         /\ \A u \in Nodes : u # t =>
              IF rh[r].stat = "PEND_WAIT" /\ pc[u] = "sleep_rh" /\ cur[u] = r
              THEN pc'[u] = "wake_rh" ELSE pc'[u] = pc[u]
         /\ chlock'[d] = NoNode /\ \A n \in Nodes : n # d => chlock'[n] = chlock[n]
    BY <1>6, <1>8 DEF Good, Types
  <1>14. Types'
    <2>1. pc' \in [Nodes -> Locations] /\ chlock' \in [Nodes -> Nodes \cup {NoNode}]
      BY <1>6, <1>8, <1>12 DEF Good, Types, Locations, SendLocs, RecvLocs
    <2>2. rh' \in [RH -> RecvHandle]
      BY <1>6, <1>9 DEF RecvHandle, SendHandle, Stats, PEND
    <2> QED  BY <1>5, <1>11, <2>1, <2>2 DEF Good, Types
  <1>15. \A u \in Nodes : pc[u] = "fill_sh" =>
           /\ u # t /\ u # d /\ found[u] \in SH /\ found[u] # h
           /\ cur[u] \in RH /\ cur[u] # r
    BY <1>1, <1>3, <1>4 DEF Good, Filling, FillingSend, Working, RecvLocs
  <1>16. \A u \in Nodes : u # t /\ pc[u] = "fill_rh" =>
           /\ found[u] \in RH /\ found[u] # r /\ found[u][1] # d
           /\ cur[u] \in SH /\ cur[u] # h
    BY <1>1, <1>3, <1>4 DEF Good, Filling, FillingRecv, Working, SendLocs
  <1>17. NoFault'
    BY <1>12, <1>13 DEF Good, NoFault
  <1>18. Working'
    <2>1. \A u \in Nodes : /\ pc'[u] \in SendLocs => pc[u] \in SendLocs
                           /\ pc'[u] \in RecvLocs => pc[u] \in RecvLocs
      BY <1>1, <1>12, <1>13 DEF SendLocs, RecvLocs
    <2> QED  BY <1>5, <2>1 DEF Good, Working
  <1>19. Filling'
    <2>1. ASSUME NEW u \in Nodes, pc'[u] = "fill_rh" PROVE FillingRecv(u)'
      <3>1. u # t /\ pc[u] = "fill_rh"
        BY <1>12, <1>13, <2>1
      <3>2. FillingRecv(u)
        BY <3>1 DEF Good, Filling
      <3>3. /\ rh'[found[u]] = rh[found[u]]
            /\ chlock'[found[u][1]] = chlock[found[u][1]]
        BY <1>10, <1>13, <1>16, <3>1 DEF RH
      <3> QED  BY <1>5, <3>2, <3>3 DEF FillingRecv
    <2>2. ASSUME NEW u \in Nodes, pc'[u] = "fill_sh" PROVE FillingSend(u)'
      <3>1. u # t /\ pc[u] = "fill_sh"
        BY <1>12, <1>13, <2>2
      <3>2. FillingSend(u)
        BY <3>1 DEF Good, Filling
      <3>3. rh'[cur[u]] = rh[cur[u]] /\ chlock'[u] = chlock[u]
        BY <1>10, <1>13, <1>15, <3>1
      <3> QED  BY <1>5, <3>2, <3>3 DEF FillingSend
    <2> QED  BY <2>1, <2>2 DEF Filling
  <1>20. Queues'
    <2>1. \A x \in RH : rh[x].stat \notin {"NONE", "CREATE"} => rh'[x].stat \notin {"NONE", "CREATE"}
      BY <1>10
    <2> QED  BY <1>5, <2>1 DEF Good, Queues
  <1>21. Unborn'
    <2>1. r[2] <= nrh[r[1]]
      BY <1>3 DEF Good, Unborn, NoRecv
    <2> QED  BY <1>5, <1>10, <2>1 DEF Good, Unborn
  <1>22. SendStates'
    <2>1. \A u \in Nodes : /\ pc'[u] \in {"start_sh", "wait_sh", "test_sh", "free_test_sh"} => pc'[u] = pc[u]
                           /\ pc'[u] = "enter_wait_sh" => pc[u] = "enter_wait_sh" \/ u = t
      BY <1>12, <1>13
    <2> QED  BY <1>3, <1>5, <2>1 DEF Good, SendStates, Going
  <1>23. RecvStates'
    <2> SUFFICES ASSUME NEW u \in Nodes, u # t
                 PROVE  /\ pc'[u] = "start_rh" => rh'[cur[u]].stat = "CREATE"
                        /\ pc'[u] = "wait_rh" => rh'[cur[u]].stat \in Going
                        /\ pc'[u] = "wake_rh" => rh'[cur[u]].stat \in {"PEND_WAIT", "MATCH"}
                        /\ pc'[u] = "enter_wait_rh" /\ rh'[cur[u]].type = "RECV" => rh'[cur[u]].stat \in Going
      BY <1>5, <1>12, <1>13 DEF RecvStates
    <2>1. /\ pc[u] = "start_rh" => rh[cur[u]].stat = "CREATE"
          /\ pc[u] = "wait_rh" => rh[cur[u]].stat \in Going
          /\ pc[u] = "wake_rh" => rh[cur[u]].stat \in {"PEND_WAIT", "MATCH"}
          /\ pc[u] = "enter_wait_rh" /\ rh[cur[u]].type = "RECV" => rh[cur[u]].stat \in Going
      BY DEF Good, RecvStates
    <2>2. CASE cur[u] = r
      BY <1>3, <1>10, <1>13, <2>1, <2>2 DEF Going, PEND
    <2>3. CASE cur[u] # r
      <3>1. pc'[u] = pc[u]
        BY <1>13, <2>3
      <3>2. pc[u] \in RecvLocs => rh'[cur[u]] = rh[cur[u]]
        BY <1>10, <2>3 DEF Good, Working
      <3> QED  BY <2>1, <3>1, <3>2 DEF RecvLocs
    <2> QED  BY <2>2, <2>3
  <1>24. NoMissed'
    BY <1>5, <1>10 DEF Good, NoMissed, PEND
  <1>25. NoLostWakeup'
    <2>1. ASSUME NEW u \in Nodes, pc'[u] = "sleep_rh" PROVE rh'[cur[u]].stat = "PEND_WAIT"
      <3>1. u # t /\ pc[u] = "sleep_rh" /\ rh[cur[u]].stat = "PEND_WAIT" /\ cur[u] \in RH
        BY <1>12, <1>13, <2>1 DEF Good, NoLostWakeup, Working, RecvLocs
      <3>2. cur[u] # r
        BY <1>13, <2>1, <3>1
      <3> QED  BY <1>10, <3>1, <3>2
    <2>2. \A u \in Nodes : pc'[u] = "sleep_sh" => pc[u] = "sleep_sh"
      BY <1>12, <1>13
    <2> QED  BY <1>5, <2>1, <2>2 DEF Good, NoLostWakeup
  <1>26. Fresh'
    <2>0. Fresh
      BY DEF Good
    <2>1. \A n \in Nodes, x \in SH : InQueue(sq'[n], x) /\ sh'[x].stat \in PEND => FreshSend(x)'
      <3>1. \A x \in SH : sh'[x].stat \in PEND => x # h /\ sh[x].stat \in PEND
        BY <1>3, <1>5 DEF PEND
      <3> QED  BY <1>5, <1>11, <2>0, <3>1 DEF Fresh
    <2>2. \A n \in Nodes, x \in RH : InQueue(rq'[n], x) /\ rh'[x].stat \in PEND => FreshRecv(x)'
      <3>1. \A x \in RH : rh'[x].stat \in PEND => x # r /\ rh[x].stat \in PEND
        BY <1>10 DEF PEND
      <3> QED  BY <1>5, <1>11, <2>0, <3>1 DEF Fresh
    <2>3. ASSUME NEW u \in Nodes
          PROVE  /\ pc'[u] = "fill_rh" => (FreshSend(cur[u]) /\ FreshRecv(found[u]))'
                 /\ pc'[u] = "fill_sh" => (FreshSend(found[u]) /\ FreshRecv(cur[u]))'
      <3>1. /\ pc'[u] = "fill_rh" => u # t /\ pc[u] = "fill_rh"
            /\ pc'[u] = "fill_sh" => u # t /\ pc[u] = "fill_sh"
        BY <1>12, <1>13
      <3> QED  BY <1>5, <1>11, <1>15, <1>16, <2>0, <3>1 DEF Fresh
    <2> QED  BY <2>1, <2>2, <2>3 DEF Fresh
  <1>27. \A x \in SH : SendBeingFilled(x) => SendBeingFilled(x)'
    BY <1>1, <1>5, <1>13 DEF SendBeingFilled
  <1>28. Answered'
    <2>0. Answered
      BY DEF Good
    <2>1. \A u \in Nodes : u # t =>
            /\ pc'[u] \in SendLocs <=> pc[u] \in SendLocs
            /\ pc'[u] \in RecvLocs <=> pc[u] \in RecvLocs
            /\ pc[u] \in BlockingSend => pc'[u] \in BlockingSend
            /\ pc[u] \in BlockingRecv => pc'[u] \in BlockingRecv
      BY <1>13 DEF SendLocs, RecvLocs, BlockingSend, BlockingRecv
    <2>2. /\ pc[t] \in SendLocs /\ pc[t] \notin RecvLocs /\ pc'[t] \notin RecvLocs
          /\ pc'[t] \in SendLocs => pc'[t] \in BlockingSend
          /\ pc'[t] \in SendLocs <=> sh[h].type = "SEND"
      BY <1>1, <1>12, <1>13 DEF SendLocs, RecvLocs, BlockingSend
    <2>3. \A x \in RH : rh'[x].live = rh[x].live /\ rh'[x].held = rh[x].held /\ rh'[x].type = rh[x].type
      BY <1>10
    <2>4. \A u \in Nodes : pc[u] \in RecvLocs => cur[u] \in RH
      BY DEF Good, Working
    <2>5. \A u \in Nodes :
            /\ pc'[u] \in SendLocs /\ sh'[cur'[u]].live =>
                 sh'[cur'[u]].held \/ (sh'[cur'[u]].type = "SEND" /\ pc'[u] \in BlockingSend)
            /\ pc'[u] \in RecvLocs /\ rh'[cur'[u]].live =>
                 rh'[cur'[u]].held \/ (rh'[cur'[u]].type = "RECV" /\ pc'[u] \in BlockingRecv)
      BY <1>5, <2>0, <2>1, <2>2, <2>3, <2>4 DEF Answered
    <2>6. ASSUME NEW x \in SH
          PROVE  /\ sh'[x].type # "PERSISTENT" /\ sh'[x].stat \in PEND =>
                      InQueue(sq'[sh'[x].dest], x) \/ SendBeingFilled(x)'
                 /\ LeftBehind(x)' => ~sh'[x].held /\ ~(pc'[x[1]] \in SendLocs /\ cur'[x[1]] = x)
                 /\ sh'[x].live => sh'[x].held \/ (pc'[x[1]] \in SendLocs /\ cur'[x[1]] = x) \/ LeftBehind(x)'
                 /\ sh'[x].held => sh'[x].type # "SEND"
      <3>1. x[1] \in Nodes
        BY DEF SH
      <3>2. x = h => (sh[h].live => sh[h].held \/ sh[h].type = "SEND")
        BY <1>3, <2>0, <2>2 DEF Answered
      <3> QED  BY <1>3, <1>5, <1>27, <2>0, <2>1, <2>2, <3>1, <3>2 DEF Answered, LeftBehind
    <2>7. ASSUME NEW x \in RH
          PROVE  /\ rh'[x].live => rh'[x].held \/ (pc'[x[1]] \in RecvLocs /\ cur'[x[1]] = x)
                 /\ rh'[x].held => rh'[x].type # "RECV"
      <3>1. x[1] \in Nodes
        BY DEF RH
      <3> QED  BY <1>5, <2>0, <2>1, <2>2, <2>3, <3>1 DEF Answered
    <2> QED  BY <2>5, <2>6, <2>7 DEF Answered
  <1> QED  BY <1>11, <1>14, <1>17, <1>18, <1>19, <1>20, <1>21, <1>22, <1>23, <1>24, <1>25, <1>26,
              <1>28 DEF Good

\* The receive is queued: no message in the channel suits it.
LEMMA StartRecvUnmatchedStep ==
  ASSUME Good, NEW t \in Nodes, StartRecvUnmatched(t)
  PROVE  Good'
  <1>1. PICK r \in RH : r = cur[t] /\ r[1] = t
    BY DEF Good, Working, StartRecvUnmatched, Goto, RecvLocs
  <1>2. /\ cur[t] = r /\ r[1] = t /\ pc[t] = "start_rh" /\ rh[r].stat = "CREATE"
        /\ rh \in [RH -> RecvHandle] /\ rh[r] \in RecvHandle
    BY <1>1 DEF Good, StartRecvUnmatched, Goto, RecvStates, Types
  <1>3. UNCHANGED <<sh, sq, chlock, shlock, cur, found, nsh, nrh, spurious, sent, matched>>
    BY DEF StartRecvUnmatched, locks, counts
  <1>4. /\ rh' = [rh EXCEPT ![r].stat = "PEND_STRT", ![r].msg = Len(posted[t]) + 1]
        /\ pc' = [pc EXCEPT ![t] = AfterStartRecv(r)]
        /\ chlock[t] = NoNode
    BY <1>1 DEF StartRecvUnmatched, Goto
  <1>5. rq' = [rq EXCEPT ![t] = Append(@, r)] /\ Posted(t, r) /\ First(sq[t], sq_cmp(rh[r])) = 0
    BY <1>1 DEF StartRecvUnmatched
  <1>6. /\ AfterStartRecv(r) \in {"enter_wait_rh", "idle"}
        /\ AfterStartRecv(r) = "enter_wait_rh" <=> rh[r].type = "RECV"
    BY DEF AfterStartRecv
  <1>7. /\ rh'[r].stat = "PEND_STRT" /\ rh'[r].msg = Len(posted[t]) + 1
        /\ rh'[r].type = rh[r].type /\ rh'[r].src = rh[r].src /\ rh'[r].tag = rh[r].tag
        /\ rh'[r].live = rh[r].live /\ rh'[r].held = rh[r].held
        /\ \A x \in RH : x # r => rh'[x] = rh[x]
    BY <1>2, <1>4 DEF RecvHandle
  <1>8. /\ posted' \in [Nodes -> Seq(RecvAsked)] /\ Len(posted[t]) + 1 \in Nat
        /\ Numbers' /\ Matched' /\ FreshRecv(r)'
        /\ \A x \in RH : x # r /\ FreshRecv(x) => FreshRecv(x)'
        /\ \A x \in SH : FreshSend(x) => FreshSend(x)'
    <2>1. UNCHANGED <<sh, sent, matched>>
      BY <1>3
    <2> QED  BY <1>2, <1>5, <1>7, <2>1, RecvStarted
  <1>9. /\ rq' \in [Nodes -> Seq(RH)]
        /\ \A n \in Nodes, x \in RH : InQueue(rq'[n], x) <=> InQueue(rq[n], x) \/ (n = t /\ x = r)
        /\ \A n \in Nodes : NoDup(rq'[n])
    <2>1. rq \in [Nodes -> Seq(RH)] /\ \A n \in Nodes : NoDup(rq[n])
      BY DEF Good, Types, Queues
    <2>2. ~InQueue(rq[t], r)
      BY <1>2 DEF Good, Queues
    <2>3. /\ Append(rq[t], r) \in Seq(RH) /\ NoDup(Append(rq[t], r))
          /\ \A x : InQueue(Append(rq[t], r), x) <=> InQueue(rq[t], x) \/ x = r
      BY <2>1, <2>2, Appended
    <2>4. rq'[t] = Append(rq[t], r) /\ \A n \in Nodes : n # t => rq'[n] = rq[n]
      BY <1>5, <2>1
    <2> QED  BY <1>5, <2>1, <2>3, <2>4
  <1>10. pc'[t] = AfterStartRecv(r) /\ \A u \in Nodes : u # t => pc'[u] = pc[u]
    BY <1>4 DEF Good, Types
  <1>11. Types'
    <2>1. pc' \in [Nodes -> Locations]
      BY <1>4, <1>6 DEF Good, Types, Locations, RecvLocs
    <2>2. rh' \in [RH -> RecvHandle]
      BY <1>2, <1>4, <1>8 DEF RecvHandle, Stats, PEND
    <2> QED  BY <1>3, <1>8, <1>9, <2>1, <2>2 DEF Good, Types
  <1>12. \A u \in Nodes : u # t /\ pc[u] \in RecvLocs => cur[u] \in RH /\ cur[u] # r
    BY <1>2 DEF Good, Working
  <1>13. \A u \in Nodes : pc[u] = "fill_rh" =>
           u # t /\ found[u] \in RH /\ found[u][1] # t /\ found[u] # r
    BY <1>2, <1>4, BoundsAssumption DEF Good, Filling, FillingRecv
  <1>14. NoFault'
    BY <1>6, <1>10 DEF Good, NoFault
  <1>15. Working'
    BY <1>2, <1>3, <1>6, <1>10 DEF Good, Working, SendLocs, RecvLocs
  <1>16. Filling'
    <2>1. ASSUME NEW u \in Nodes, pc'[u] = "fill_rh" PROVE FillingRecv(u)'
      <3>1. u # t /\ pc[u] = "fill_rh"
        BY <1>6, <1>10, <2>1
      <3>2. FillingRecv(u)
        BY <3>1 DEF Good, Filling
      <3>3. rh'[found[u]] = rh[found[u]] /\ found[u] \in RH /\ found[u][1] \in Nodes
        BY <1>7, <1>13, <3>1 DEF RH
      <3>4. ~InQueue(rq'[found[u][1]], found[u])
        BY <1>9, <1>13, <3>1, <3>2, <3>3 DEF FillingRecv
      <3> QED  BY <1>3, <3>2, <3>3, <3>4 DEF FillingRecv
    <2>2. ASSUME NEW u \in Nodes, pc'[u] = "fill_sh" PROVE FillingSend(u)'
      <3>1. u # t /\ pc[u] = "fill_sh"
        BY <1>6, <1>10, <2>2
      <3>2. FillingSend(u)
        BY <3>1 DEF Good, Filling
      <3>3. rh'[cur[u]] = rh[cur[u]]
        BY <1>7, <1>12, <3>1 DEF RecvLocs
      <3> QED  BY <1>3, <3>2, <3>3 DEF FillingSend
    <2> QED  BY <2>1, <2>2 DEF Filling
  <1>17. Queues'
    <2>0. Queues
      BY DEF Good
    <2>1. ASSUME NEW n \in Nodes, NEW x \in RH, InQueue(rq'[n], x)
          PROVE  x[1] = n /\ rh'[x].stat \notin {"NONE", "CREATE"}
      BY <1>2, <1>7, <1>9, <2>0, <2>1 DEF Queues
    <2> QED  BY <1>3, <1>9, <2>0, <2>1 DEF Queues
  <1>18. Unborn'
    <2>1. r[2] <= nrh[r[1]]
      BY <1>2 DEF Good, Unborn, NoRecv
    <2> QED  BY <1>3, <1>7, <2>1 DEF Good, Unborn
  <1>19. SendStates'
    <2>1. \A u \in Nodes : pc'[u] \in SendLocs => pc'[u] = pc[u]
      BY <1>6, <1>10 DEF SendLocs
    <2> QED  BY <1>3, <2>1 DEF Good, SendStates, SendLocs
  <1>20. RecvStates'
    <2>1. ASSUME NEW u \in Nodes, u # t, pc'[u] \in RecvLocs PROVE pc[u] = pc'[u] /\ rh'[cur[u]] = rh[cur[u]]
      BY <1>7, <1>10, <1>12, <2>1
    <2>2. pc'[t] \in {"enter_wait_rh", "idle"} /\ rh'[cur[t]].stat \in Going
      BY <1>2, <1>6, <1>7, <1>10 DEF Going, PEND
    <2> QED  BY <1>3, <2>1, <2>2 DEF Good, RecvStates, RecvLocs
  <1>21. NoMissed'
    <2> SUFFICES ASSUME NEW n \in Nodes, NEW h \in SH, NEW x \in RH, InQueue(sq[n], h),
                        InQueue(rq'[n], x), sh[h].stat \in PEND, rh'[x].stat \in PEND
                 PROVE  ~Fits(rh'[x], h[1], sh[h].tag)
      BY <1>3 DEF NoMissed
    <2>1. CASE x = r
      <3>1. n = t
        BY <1>2, <1>9, <2>1 DEF Good, Queues
      <3>2. sq[t] \in Seq(SH)
        BY DEF Good, Types
      <3>3. \A i \in 1..Len(sq[t]) : sq[t][i] \notin sq_cmp(rh[r])
        BY <1>5, <3>2, FirstIs
      <3>4. h \notin sq_cmp(rh[r])
        BY <3>1, <3>3 DEF InQueue
      <3>5. ~Fits(rh[r], h[1], sh[h].tag)
        BY <3>4 DEF sq_cmp
      <3> QED  BY <1>7, <2>1, <3>5 DEF Fits
    <2>2. CASE x # r
      BY <1>7, <1>9, <2>2 DEF Good, NoMissed
    <2> QED  BY <2>1, <2>2
  <1>22. NoLostWakeup'
    <2>1. \A u \in Nodes : pc'[u] = "sleep_rh" => u # t /\ pc[u] = "sleep_rh" /\ rh'[cur[u]] = rh[cur[u]]
      BY <1>6, <1>7, <1>10, <1>12 DEF RecvLocs
    <2>2. \A u \in Nodes : pc'[u] = "sleep_sh" => pc[u] = "sleep_sh"
      BY <1>6, <1>10
    <2> QED  BY <1>3, <2>1, <2>2 DEF Good, NoLostWakeup
  <1>23. Fresh'
    <2>0. Fresh
      BY DEF Good
    <2>1. \A n \in Nodes, x \in SH : InQueue(sq'[n], x) /\ sh'[x].stat \in PEND => FreshSend(x)'
      BY <1>3, <1>8, <2>0 DEF Fresh
    <2>2. ASSUME NEW n \in Nodes, NEW x \in RH, InQueue(rq'[n], x), rh'[x].stat \in PEND PROVE FreshRecv(x)'
      <3>1. x # r => InQueue(rq[n], x) /\ rh[x].stat \in PEND
        BY <1>7, <1>9, <2>2
      <3> QED  BY <1>8, <2>0, <3>1 DEF Fresh
    <2>3. ASSUME NEW u \in Nodes
          PROVE  /\ pc'[u] = "fill_rh" => (FreshSend(cur[u]) /\ FreshRecv(found[u]))'
                 /\ pc'[u] = "fill_sh" => (FreshSend(found[u]) /\ FreshRecv(cur[u]))'
      <3>1. /\ pc'[u] = "fill_rh" => u # t /\ pc[u] = "fill_rh"
            /\ pc'[u] = "fill_sh" => u # t /\ pc[u] = "fill_sh"
        BY <1>6, <1>10
      <3>2. /\ pc[u] = "fill_rh" => cur[u] \in SH /\ found[u] \in RH
            /\ pc[u] = "fill_sh" => found[u] \in SH /\ cur[u] \in RH
        BY DEF Good, Working, Filling, FillingRecv, FillingSend, SendLocs, RecvLocs
      <3> QED  BY <1>3, <1>8, <1>12, <1>13, <2>0, <3>1, <3>2 DEF Fresh, RecvLocs
    <2> QED  BY <2>1, <2>2, <2>3 DEF Fresh
  <1>24. \A x \in SH : SendBeingFilled(x) => SendBeingFilled(x)'
    BY <1>2, <1>3, <1>10 DEF SendBeingFilled
  <1>25. Answered'
    <2>0. Answered
      BY DEF Good
    <2>1. /\ pc[t] \notin SendLocs /\ pc'[t] \notin SendLocs /\ pc[t] \in RecvLocs
          /\ pc'[t] \in RecvLocs => pc'[t] \in BlockingRecv
          /\ pc'[t] \in RecvLocs <=> rh[r].type = "RECV"
      BY <1>2, <1>6, <1>10 DEF SendLocs, RecvLocs, BlockingRecv
    <2>2. \A x \in RH : rh'[x].live = rh[x].live /\ rh'[x].held = rh[x].held /\ rh'[x].type = rh[x].type
      BY <1>7
    <2>3. \A u \in Nodes : pc[u] \in RecvLocs => cur[u] \in RH
      BY DEF Good, Working
    <2>4. \A u \in Nodes :
            /\ pc'[u] \in SendLocs /\ sh'[cur'[u]].live =>
                 sh'[cur'[u]].held \/ (sh'[cur'[u]].type = "SEND" /\ pc'[u] \in BlockingSend)
            /\ pc'[u] \in RecvLocs /\ rh'[cur'[u]].live =>
                 rh'[cur'[u]].held \/ (rh'[cur'[u]].type = "RECV" /\ pc'[u] \in BlockingRecv)
      BY <1>3, <1>10, <2>0, <2>1, <2>2, <2>3 DEF Answered
    <2>5. ASSUME NEW x \in SH
          PROVE  /\ sh'[x].type # "PERSISTENT" /\ sh'[x].stat \in PEND =>
                      InQueue(sq'[sh'[x].dest], x) \/ SendBeingFilled(x)'
                 /\ LeftBehind(x)' => ~sh'[x].held /\ ~(pc'[x[1]] \in SendLocs /\ cur'[x[1]] = x)
                 /\ sh'[x].live => sh'[x].held \/ (pc'[x[1]] \in SendLocs /\ cur'[x[1]] = x) \/ LeftBehind(x)'
                 /\ sh'[x].held => sh'[x].type # "SEND"
      <3>1. x[1] \in Nodes
        BY DEF SH
      <3> QED  BY <1>3, <1>10, <1>24, <2>0, <2>1, <3>1 DEF Answered, LeftBehind
    <2>6. ASSUME NEW x \in RH
          PROVE  /\ rh'[x].live => rh'[x].held \/ (pc'[x[1]] \in RecvLocs /\ cur'[x[1]] = x)
                 /\ rh'[x].held => rh'[x].type # "RECV"
      <3>1. x[1] \in Nodes
        BY DEF RH
      <3>2. x = r => (rh[r].live => rh[r].held \/ rh[r].type = "RECV")
        BY <1>2, <2>0, <2>1 DEF Answered
      <3> QED  BY <1>2, <1>3, <1>10, <2>0, <2>1, <2>2, <3>1, <3>2 DEF Answered
    <2> QED  BY <2>4, <2>5, <2>6 DEF Answered
  <1> QED  BY <1>8, <1>11, <1>14, <1>15, <1>16, <1>17, <1>18, <1>19, <1>20, <1>21, <1>22, <1>23,
              <1>25 DEF Good

\* The first message that suits leaves the queue, and the receiver keeps its channel locked.
LEMMA StartRecvMatchedStep ==
  ASSUME Good, NEW t \in Nodes, StartRecvMatched(t)
  PROVE  Good'
  <1>1. PICK r \in RH : r = cur[t] /\ r[1] = t
    BY DEF Good, Working, StartRecvMatched, Goto, RecvLocs
  <1>2. /\ cur[t] = r /\ r[1] = t /\ pc[t] = "start_rh" /\ rh[r].stat = "CREATE"
        /\ rh \in [RH -> RecvHandle] /\ rh[r] \in RecvHandle
    BY <1>1 DEF Good, StartRecvMatched, Goto, RecvStates, Types
  <1>3. UNCHANGED <<sh, rq, shlock, cur, nsh, nrh, spurious, sent, matched>>
    BY DEF StartRecvMatched, counts
  <1> DEFINE i == First(sq[t], sq_cmp(rh[r]))
  <1>4. /\ rh' = [rh EXCEPT ![r].msg = Len(posted[t]) + 1]
        /\ found' = [found EXCEPT ![t] = sq[t][i]]
        /\ sq' = [sq EXCEPT ![t] = Without(@, i)]
        /\ chlock' = [chlock EXCEPT ![t] = t]
        /\ pc' = [pc EXCEPT ![t] = "fill_sh"]
    BY <1>1 DEF StartRecvMatched, Goto
  <1>5. i # 0 /\ chlock[t] = NoNode /\ Posted(t, r)
    BY <1>1 DEF StartRecvMatched
  <1>6. /\ rh'[r].stat = "CREATE" /\ rh'[r].msg = Len(posted[t]) + 1
        /\ rh'[r].type = rh[r].type /\ rh'[r].src = rh[r].src /\ rh'[r].tag = rh[r].tag
        /\ rh'[r].live = rh[r].live /\ rh'[r].held = rh[r].held
        /\ \A x \in RH : x # r => rh'[x] = rh[x]
    BY <1>2, <1>4 DEF RecvHandle
  <1>7. /\ posted' \in [Nodes -> Seq(RecvAsked)] /\ Len(posted[t]) + 1 \in Nat
        /\ Numbers' /\ Matched' /\ FreshRecv(r)'
        /\ \A x \in RH : x # r /\ FreshRecv(x) => FreshRecv(x)'
        /\ \A x \in SH : FreshSend(x) => FreshSend(x)'
    <2>1. UNCHANGED <<sh, sent, matched>>
      BY <1>3
    <2> QED  BY <1>2, <1>5, <1>6, <2>1, RecvStarted
  <1>8. sq \in [Nodes -> Seq(SH)] /\ \A n \in Nodes : NoDup(sq[n])
    BY DEF Good, Types, Queues
  <1>9. i \in 1..Len(sq[t]) /\ sq[t][i] \in sq_cmp(rh[r])
    BY <1>5, <1>8, FirstIs
  <1>10. PICK h \in SH : h = sq[t][i]
    BY <1>9 DEF sq_cmp
  <1>11. sh[h].stat \in PEND /\ Fits(rh[r], h[1], sh[h].tag)
    BY <1>9, <1>10 DEF sq_cmp
  <1>12. /\ Without(sq[t], i) \in Seq(SH) /\ NoDup(Without(sq[t], i)) /\ InQueue(sq[t], h)
         /\ \A x : InQueue(Without(sq[t], i), x) <=> InQueue(sq[t], x) /\ x # h
    BY <1>8, <1>9, <1>10, Removed
  <1> HIDE DEF i
  <1>13. sq'[t] = Without(sq[t], i) /\ \A n \in Nodes : n # t => sq'[n] = sq[n]
    BY <1>4, <1>8
  <1>14. /\ sq' \in [Nodes -> Seq(SH)]
         /\ \A n \in Nodes, x \in SH : InQueue(sq'[n], x) <=> InQueue(sq[n], x) /\ ~(n = t /\ x = h)
         /\ \A n \in Nodes : NoDup(sq'[n])
    BY <1>4, <1>8, <1>12, <1>13
  <1>15. sh[h].dest = t
    BY <1>12 DEF Good, Queues
  <1>16. /\ pc'[t] = "fill_sh" /\ \A u \in Nodes : u # t => pc'[u] = pc[u]
         /\ found'[t] = h /\ \A u \in Nodes : u # t => found'[u] = found[u]
         /\ chlock'[t] = t /\ \A n \in Nodes : n # t => chlock'[n] = chlock[n]
    BY <1>4, <1>10 DEF Good, Types
  <1>17. Types'
    <2>1. h \in Handles
      BY BoundsAssumption DEF SH, Handles
    <2>2. pc' \in [Nodes -> Locations] /\ found' \in [Nodes -> Handles]
          /\ chlock' \in [Nodes -> Nodes \cup {NoNode}]
      BY <1>4, <1>10, <2>1 DEF Good, Types, Locations, RecvLocs
    <2>3. rh' \in [RH -> RecvHandle]
      BY <1>2, <1>4, <1>7 DEF RecvHandle
    <2> QED  BY <1>3, <1>7, <1>14, <2>2, <2>3 DEF Good, Types
  <1>18. \A u \in Nodes : u # t /\ pc[u] \in RecvLocs => cur[u] \in RH /\ cur[u] # r
    BY <1>2 DEF Good, Working
  <1>19. \A u \in Nodes : pc[u] = "fill_rh" =>
           u # t /\ found[u] \in RH /\ found[u][1] # t /\ found[u] # r
    BY <1>2, <1>5, BoundsAssumption DEF Good, Filling, FillingRecv
  <1>20. NoFault'
    BY <1>16 DEF Good, NoFault
  <1>21. Working'
    BY <1>2, <1>3, <1>16 DEF Good, Working, SendLocs, RecvLocs
  <1>22. Filling'
    <2>1. FillingSend(t)'
      <3>1. Fits(rh'[cur'[t]], found'[t][1], sh'[found'[t]].tag)
        BY <1>2, <1>3, <1>6, <1>11, <1>16 DEF Fits
      <3>2. sh'[found'[t]].stat \notin {"NONE", "CREATE"}
        BY <1>3, <1>11, <1>16 DEF PEND
      <3> QED  BY <1>2, <1>3, <1>6, <1>14, <1>15, <1>16, <3>1, <3>2 DEF FillingSend
    <2>2. ASSUME NEW u \in Nodes, u # t, pc'[u] = "fill_rh" PROVE FillingRecv(u)'
      <3>1. pc[u] = "fill_rh" /\ found'[u] = found[u]
        BY <1>16, <2>2
      <3>2. FillingRecv(u)
        BY <3>1 DEF Good, Filling
      <3>3. rh'[found[u]] = rh[found[u]] /\ chlock'[found[u][1]] = chlock[found[u][1]]
        BY <1>6, <1>16, <1>19, <3>1 DEF RH
      <3> QED  BY <1>3, <3>1, <3>2, <3>3 DEF FillingRecv
    <2>3. ASSUME NEW u \in Nodes, u # t, pc'[u] = "fill_sh" PROVE FillingSend(u)'
      <3>1. pc[u] = "fill_sh" /\ found'[u] = found[u]
        BY <1>16, <2>3
      <3>2. FillingSend(u)
        BY <3>1 DEF Good, Filling
      <3>3. rh'[cur[u]] = rh[cur[u]] /\ chlock'[u] = chlock[u] /\ sq'[u] = sq[u]
        BY <1>6, <1>13, <1>16, <1>18, <2>3, <3>1 DEF RecvLocs
      <3> QED  BY <1>3, <3>1, <3>2, <3>3 DEF FillingSend
    <2>4. pc'[t] = "fill_sh"
      BY <1>16
    <2> QED  BY <2>1, <2>2, <2>3, <2>4 DEF Filling
  <1>23. Queues'
    <2>0. Queues
      BY DEF Good
    <2>1. \A x \in RH : rh[x].stat = rh'[x].stat
      BY <1>2, <1>6
    <2>2. \A n \in Nodes, x \in SH : InQueue(sq'[n], x) => InQueue(sq[n], x)
      BY <1>14
    <2> QED  BY <1>3, <1>14, <2>0, <2>1, <2>2 DEF Queues
  <1>24. Unborn'
    <2>1. r[2] <= nrh[r[1]]
      BY <1>2 DEF Good, Unborn, NoRecv
    <2> QED  BY <1>3, <1>6, <2>1 DEF Good, Unborn
  <1>25. SendStates'
    <2>1. \A u \in Nodes : pc'[u] \in SendLocs => pc'[u] = pc[u] /\ cur[u] \in SH
      BY <1>16 DEF SendLocs, Good, Working
    <2>2. \A n \in Nodes, x \in SH : InQueue(sq'[n], x) => InQueue(sq[n], x)
      BY <1>14
    <2> QED  BY <1>3, <2>1, <2>2 DEF Good, SendStates, SendLocs
  <1>26. RecvStates'
    <2>1. ASSUME NEW u \in Nodes, u # t, pc'[u] \in RecvLocs PROVE pc[u] = pc'[u] /\ rh'[cur[u]] = rh[cur[u]]
      BY <1>6, <1>16, <1>18, <2>1
    <2>2. pc'[t] = "fill_sh"
      BY <1>16
    <2> QED  BY <1>3, <2>1, <2>2 DEF Good, RecvStates, RecvLocs
  <1>27. NoMissed'
    <2>1. \A x \in RH : rh'[x].stat \in PEND => rh'[x] = rh[x]
      BY <1>6 DEF PEND
    <2>2. \A n \in Nodes, x \in SH : InQueue(sq'[n], x) => InQueue(sq[n], x)
      BY <1>14
    <2> QED  BY <1>3, <2>1, <2>2 DEF Good, NoMissed
  <1>28. NoLostWakeup'
    <2>1. \A u \in Nodes : pc'[u] = "sleep_rh" => u # t /\ pc[u] = "sleep_rh" /\ rh'[cur[u]] = rh[cur[u]]
      BY <1>6, <1>16, <1>18 DEF RecvLocs
    <2>2. \A u \in Nodes : pc'[u] = "sleep_sh" => pc[u] = "sleep_sh"
      BY <1>16
    <2> QED  BY <1>3, <2>1, <2>2 DEF Good, NoLostWakeup
  <1>29. Fresh'
    <2>0. Fresh
      BY DEF Good
    <2>1. \A n \in Nodes, x \in SH : InQueue(sq'[n], x) /\ sh'[x].stat \in PEND => FreshSend(x)'
      BY <1>3, <1>7, <1>14, <2>0 DEF Fresh
    <2>2. ASSUME NEW n \in Nodes, NEW x \in RH, InQueue(rq'[n], x), rh'[x].stat \in PEND PROVE FreshRecv(x)'
      <3>1. x # r /\ InQueue(rq[n], x) /\ rh[x].stat \in PEND
        BY <1>3, <1>6, <2>2 DEF PEND
      <3> QED  BY <1>7, <2>0, <3>1 DEF Fresh
    <2>3. FreshSend(h)'
      BY <1>7, <1>11, <1>12, <2>0 DEF Fresh
    <2>4. ASSUME NEW u \in Nodes
          PROVE  /\ pc'[u] = "fill_rh" => (FreshSend(cur[u]) /\ FreshRecv(found[u]))'
                 /\ pc'[u] = "fill_sh" => (FreshSend(found[u]) /\ FreshRecv(cur[u]))'
      <3>1. CASE u = t
        BY <1>2, <1>3, <1>7, <1>16, <2>3, <3>1
      <3>2. CASE u # t
        <4>1. /\ pc[u] = "fill_rh" => cur[u] \in SH /\ found[u] \in RH
              /\ pc[u] = "fill_sh" => found[u] \in SH /\ cur[u] \in RH
          BY DEF Good, Working, Filling, FillingRecv, FillingSend, SendLocs, RecvLocs
        <4> QED  BY <1>3, <1>7, <1>16, <1>18, <1>19, <2>0, <3>2, <4>1 DEF Fresh, RecvLocs
      <3> QED  BY <3>1, <3>2
    <2> QED  BY <2>1, <2>2, <2>4 DEF Fresh
  <1>30. \A x \in SH : SendBeingFilled(x) => SendBeingFilled(x)'
    BY <1>2, <1>3, <1>16 DEF SendBeingFilled
  <1>31. SendBeingFilled(h)'
    BY <1>16 DEF SendBeingFilled
  <1>32. Answered'
    <2>0. Answered
      BY DEF Good
    <2>1. /\ pc[t] \notin SendLocs /\ pc'[t] \notin SendLocs /\ pc[t] \in RecvLocs
          /\ pc'[t] \in RecvLocs /\ pc'[t] \in BlockingRecv /\ pc[t] \in BlockingRecv
      BY <1>2, <1>16 DEF SendLocs, RecvLocs, BlockingRecv
    <2>2. \A x \in RH : rh'[x].live = rh[x].live /\ rh'[x].held = rh[x].held /\ rh'[x].type = rh[x].type
      BY <1>6
    <2>3. \A u \in Nodes : pc[u] \in RecvLocs => cur[u] \in RH
      BY DEF Good, Working
    <2>4. \A u \in Nodes :
            /\ pc'[u] \in SendLocs /\ sh'[cur'[u]].live =>
                 sh'[cur'[u]].held \/ (sh'[cur'[u]].type = "SEND" /\ pc'[u] \in BlockingSend)
            /\ pc'[u] \in RecvLocs /\ rh'[cur'[u]].live =>
                 rh'[cur'[u]].held \/ (rh'[cur'[u]].type = "RECV" /\ pc'[u] \in BlockingRecv)
      BY <1>3, <1>16, <2>0, <2>1, <2>2, <2>3 DEF Answered
    <2>5. ASSUME NEW x \in SH
          PROVE  /\ sh'[x].type # "PERSISTENT" /\ sh'[x].stat \in PEND =>
                      InQueue(sq'[sh'[x].dest], x) \/ SendBeingFilled(x)'
                 /\ LeftBehind(x)' => ~sh'[x].held /\ ~(pc'[x[1]] \in SendLocs /\ cur'[x[1]] = x)
                 /\ sh'[x].live => sh'[x].held \/ (pc'[x[1]] \in SendLocs /\ cur'[x[1]] = x) \/ LeftBehind(x)'
                 /\ sh'[x].held => sh'[x].type # "SEND"
      <3>1. x[1] \in Nodes
        BY DEF SH
      <3>2. sh[x].type # "PERSISTENT" /\ sh[x].stat \in PEND =>
              InQueue(sq'[sh[x].dest], x) \/ SendBeingFilled(x)'
        <4>1. sh[x].stat \in PEND => sh[x].dest \in Nodes
          BY DEF Good, Unborn, NoSend, PEND
        <4> QED  BY <1>14, <1>30, <1>31, <2>0, <4>1 DEF Answered
      <3> QED  BY <1>3, <1>16, <2>0, <2>1, <3>1, <3>2 DEF Answered, LeftBehind
    <2>6. ASSUME NEW x \in RH
          PROVE  /\ rh'[x].live => rh'[x].held \/ (pc'[x[1]] \in RecvLocs /\ cur'[x[1]] = x)
                 /\ rh'[x].held => rh'[x].type # "RECV"
      <3>1. x[1] \in Nodes
        BY DEF RH
      <3> QED  BY <1>3, <1>16, <2>0, <2>1, <2>2, <3>1 DEF Answered
    <2> QED  BY <2>4, <2>5, <2>6 DEF Answered
  <1> QED  BY <1>7, <1>17, <1>20, <1>21, <1>22, <1>23, <1>24, <1>25, <1>26, <1>27, <1>28, <1>29,
              <1>32 DEF Good

\* The message is copied out of the send that was taken out of the queue; a send that was
\* left behind is retired.
LEMMA FillSendStep ==
  ASSUME Good, NEW t \in Nodes, FillSend(t)
  PROVE  Good'
  <1>1. pc[t] = "fill_sh" /\ FillingSend(t) /\ FreshSend(found[t]) /\ FreshRecv(cur[t])
    BY DEF FillSend, Good, Filling, Fresh
  <1>2. PICK h \in SH, r \in RH : h = found[t] /\ r = cur[t] /\ r[1] = t
    BY <1>1 DEF Good, Working, RecvLocs, FillingSend
  <1>3. /\ cur[t] = r /\ found[t] = h /\ r[1] = t
        /\ chlock[t] = t /\ ~InQueue(sq[t], h) /\ sh[h].stat \notin {"NONE", "CREATE"}
        /\ sh[h].dest = t /\ rh[r].stat = "CREATE" /\ Fits(rh[r], h[1], sh[h].tag)
        /\ FreshSend(h) /\ FreshRecv(r)
    BY <1>1, <1>2 DEF FillingSend
  <1>4. UNCHANGED <<sq, rq, shlock, cur, found, nsh, nrh, spurious, sent, posted>>
    BY DEF FillSend, queues, counts
  <1>5. /\ rh' = [rh EXCEPT ![r].src = h[1], ![r].tag = sh[h].tag, ![r].stat = "MATCH"]
        /\ chlock' = [chlock EXCEPT ![t] = NoNode]
    BY <1>2 DEF FillSend
  <1>6. sh' = [sh EXCEPT ![h] = CASE @.stat \in {"PEND_WAIT", "PEND_STRT"} -> [@ EXCEPT !.stat = "MATCH"]
                                  [] @.stat = "PEND_RELS" -> SendOver(@)
                                  [] OTHER -> @]
    BY <1>2 DEF FillSend
  <1>7. matched' = matched \cup {[msg |-> <<h[1], sh[h].msg>>, recv |-> <<r[1], rh[r].msg>>,
                                  data |-> Content(sh[h])]}
    BY <1>2 DEF FillSend
  <1>8. pc' = [n \in Nodes |->
                 IF n = t THEN AfterStartRecv(r)
                 ELSE IF sh[h].stat = "PEND_WAIT" /\ pc[n] = "sleep_sh" /\ cur[n] = h
                      THEN "wake_sh" ELSE pc[n]]
    BY <1>2 DEF FillSend
  <1>9. /\ rh \in [RH -> RecvHandle] /\ rh[r] \in RecvHandle
        /\ sh \in [SH -> SendHandle] /\ sh[h] \in SendHandle /\ h[1] \in Nodes
    BY DEF Good, Types, SH
  <1>10. /\ rh'[r].stat = "MATCH" /\ rh'[r].msg = rh[r].msg
         /\ rh'[r].type = rh[r].type /\ rh'[r].live = rh[r].live /\ rh'[r].held = rh[r].held
         /\ \A x \in RH : x # r => rh'[x] = rh[x]
    BY <1>5, <1>9 DEF RecvHandle
  <1>11. sh[h].stat \in {"MATCH", "FREE", "PEND_WAIT", "PEND_STRT", "PEND_RELS"}
    BY <1>3, <1>9 DEF SendHandle, Stats, PEND
  <1>12. /\ sh'[h] \in SendHandle
         /\ sh'[h].msg = sh[h].msg /\ sh'[h].dest = sh[h].dest /\ sh'[h].tag = sh[h].tag
         /\ sh'[h].type = sh[h].type
         /\ sh'[h].stat = IF sh[h].stat \in {"FREE", "PEND_RELS"} THEN "FREE" ELSE "MATCH"
         /\ LeftBehind(h) => ~sh'[h].live /\ ~sh'[h].held
         /\ ~LeftBehind(h) => sh'[h].live = sh[h].live /\ sh'[h].held = sh[h].held
    <2>1. CASE sh[h].stat \in {"PEND_WAIT", "PEND_STRT"}
      <3>1. sh'[h] = [sh[h] EXCEPT !.stat = "MATCH"]
        BY <1>6, <1>9, <2>1
      <3> QED  BY <1>9, <2>1, <3>1 DEF SendHandle, Stats, PEND, LeftBehind
    <2>2. CASE sh[h].stat = "PEND_RELS"
      <3>1. sh'[h] = SendOver(sh[h])
        BY <1>6, <1>9, <2>2
      <3> QED  BY <1>9, <2>2, <3>1 DEF SendHandle, Stats, PEND, LeftBehind, SendOver, Freed
    <2>3. CASE sh[h].stat \in {"MATCH", "FREE"}
      <3>1. sh'[h] = sh[h]
        BY <1>6, <1>9, <2>3
      <3> QED  BY <1>9, <2>3, <3>1 DEF LeftBehind
    <2> QED  BY <1>11, <2>1, <2>2, <2>3
  <1>13. \A x \in SH : x # h => sh'[x] = sh[x]
    BY <1>6, <1>9
  <1>14. /\ matched' \subseteq [msg : Handles, recv : Handles, data : {"intact", "overwritten"}]
         /\ Matched' /\ Numbers'
         /\ \A x \in SH : x # h /\ FreshSend(x) => FreshSend(x)'
         /\ \A x \in RH : x # r /\ FreshRecv(x) => FreshRecv(x)'
    <2>1. \A x \in SH : sh'[x].msg = sh[x].msg /\ (x # h => sh'[x] = sh[x])
      BY <1>12, <1>13
    <2>2. \A x \in RH : rh'[x].msg = rh[x].msg /\ (x # r => rh'[x] = rh[x])
      BY <1>10
    <2>3. UNCHANGED <<sent, posted>> /\ sh[h].dest = r[1]
      BY <1>3, <1>4
    <2>4. Content(sh[h]) \in {"intact", "overwritten"}
      BY DEF Content
    <2> QED  BY <1>3, <1>7, <2>1, <2>2, <2>3, <2>4, NewMatch
  <1>15. /\ AfterStartRecv(r) \in {"enter_wait_rh", "idle"}
         /\ AfterStartRecv(r) = "enter_wait_rh" <=> rh[r].type = "RECV"
    BY DEF AfterStartRecv
  <1>16. /\ pc'[t] = AfterStartRecv(r)
         /\ \A u \in Nodes : u # t =>
              IF sh[h].stat = "PEND_WAIT" /\ pc[u] = "sleep_sh" /\ cur[u] = h
              THEN pc'[u] = "wake_sh" ELSE pc'[u] = pc[u]
         /\ chlock'[t] = NoNode /\ \A n \in Nodes : n # t => chlock'[n] = chlock[n]
    BY <1>5, <1>8 DEF Good, Types
  <1>17. Types'
    <2>1. pc' \in [Nodes -> Locations] /\ chlock' \in [Nodes -> Nodes \cup {NoNode}]
      BY <1>5, <1>8, <1>15 DEF Good, Types, Locations, SendLocs, RecvLocs
    <2>2. rh' \in [RH -> RecvHandle]
      BY <1>5, <1>9 DEF RecvHandle, SendHandle, Stats, PEND
    <2>3. sh' \in [SH -> SendHandle]
      BY <1>6, <1>9, <1>12
    <2> QED  BY <1>4, <1>14, <2>1, <2>2, <2>3 DEF Good, Types
  <1>18. \A u \in Nodes : u # t /\ pc[u] = "fill_sh" =>
           found[u] \in SH /\ found[u] # h /\ cur[u] \in RH /\ cur[u] # r
    BY <1>3 DEF Good, Filling, FillingSend, Working, RecvLocs
  <1>19. \A u \in Nodes : pc[u] = "fill_rh" =>
           /\ u # t /\ found[u] \in RH /\ found[u] # r /\ found[u][1] # t
           /\ cur[u] \in SH /\ cur[u] # h
    BY <1>1, <1>3 DEF Good, Filling, FillingRecv, Working, SendLocs
  <1>20. \A u \in Nodes : pc[u] \in SendLocs => cur[u] \in SH /\ (cur[u] = h => ~LeftBehind(h))
    <2>1. \A u \in Nodes : pc[u] \in SendLocs => cur[u] \in SH /\ cur[u][1] = u
      BY DEF Good, Working
    <2> QED  BY <2>1 DEF Good, Answered
  <1>21. NoFault'
    BY <1>15, <1>16 DEF Good, NoFault
  <1>22. Working'
    <2>1. \A u \in Nodes : /\ pc'[u] \in SendLocs => pc[u] \in SendLocs
                           /\ pc'[u] \in RecvLocs => pc[u] \in RecvLocs
      BY <1>1, <1>15, <1>16 DEF SendLocs, RecvLocs
    <2>2. \A x \in SH : sh'[x].dest = sh[x].dest
      BY <1>12, <1>13
    <2> QED  BY <1>4, <2>1, <2>2 DEF Good, Working
  <1>23. Filling'
    <2>1. ASSUME NEW u \in Nodes, pc'[u] = "fill_rh" PROVE FillingRecv(u)'
      <3>1. u # t /\ pc[u] = "fill_rh"
        BY <1>15, <1>16, <2>1
      <3>2. FillingRecv(u)
        BY <3>1 DEF Good, Filling
      <3>3. /\ rh'[found[u]] = rh[found[u]] /\ sh'[cur[u]] = sh[cur[u]]
            /\ chlock'[found[u][1]] = chlock[found[u][1]]
        BY <1>10, <1>13, <1>16, <1>19, <3>1 DEF RH
      <3> QED  BY <1>4, <3>2, <3>3 DEF FillingRecv
    <2>2. ASSUME NEW u \in Nodes, pc'[u] = "fill_sh" PROVE FillingSend(u)'
      <3>1. u # t /\ pc[u] = "fill_sh"
        BY <1>15, <1>16, <2>2
      <3>2. FillingSend(u)
        BY <3>1 DEF Good, Filling
      <3>3. /\ rh'[cur[u]] = rh[cur[u]] /\ sh'[found[u]] = sh[found[u]]
            /\ chlock'[u] = chlock[u]
        BY <1>10, <1>13, <1>16, <1>18, <3>1
      <3> QED  BY <1>4, <3>2, <3>3 DEF FillingSend
    <2> QED  BY <2>1, <2>2 DEF Filling
  <1>24. Queues'
    <2>0. Queues
      BY DEF Good
    <2>1. \A x \in RH : rh[x].stat \notin {"NONE", "CREATE"} => rh'[x].stat \notin {"NONE", "CREATE"}
      BY <1>10
    <2>2. \A x \in SH : /\ sh[x].stat \notin {"NONE", "CREATE"} => sh'[x].stat \notin {"NONE", "CREATE"}
                        /\ sh'[x].dest = sh[x].dest
      BY <1>12, <1>13
    <2> QED  BY <1>4, <2>0, <2>1, <2>2 DEF Queues
  <1>25. Unborn'
    <2>1. r[2] <= nrh[r[1]]
      BY <1>3 DEF Good, Unborn, NoRecv
    <2>2. h[2] <= nsh[h[1]]
      BY <1>3 DEF Good, Unborn, NoSend
    <2> QED  BY <1>3, <1>4, <1>10, <1>12, <1>13, <2>1, <2>2 DEF Good, Unborn
  <1>26. \A n \in Nodes : ~InQueue(sq[n], h)
    BY <1>3 DEF Good, Queues
  <1>27. SendStates'
    <2> SUFFICES ASSUME NEW u \in Nodes, u # t
                 PROVE  /\ pc'[u] = "start_sh" => sh'[cur[u]].stat \in {"CREATE", "FREE"}
                        /\ pc'[u] \in {"wait_sh", "test_sh", "free_test_sh"} =>
                             \/ sh'[cur[u]].stat \in Going
                             \/ sh'[cur[u]].type = "PERSISTENT" /\ \A n \in Nodes : ~InQueue(sq[n], cur[u])
                        /\ pc'[u] = "enter_wait_sh" /\ sh'[cur[u]].type = "SEND" => sh'[cur[u]].stat \in Going
      BY <1>4, <1>15, <1>16 DEF SendStates
    <2>1. /\ pc[u] = "start_sh" => sh[cur[u]].stat \in {"CREATE", "FREE"}
          /\ pc[u] \in {"wait_sh", "test_sh", "free_test_sh"} =>
               \/ sh[cur[u]].stat \in Going
               \/ sh[cur[u]].type = "PERSISTENT" /\ \A n \in Nodes : ~InQueue(sq[n], cur[u])
          /\ pc[u] = "enter_wait_sh" /\ sh[cur[u]].type = "SEND" => sh[cur[u]].stat \in Going
      BY DEF Good, SendStates
    <2>2. CASE cur[u] = h
      <3>1. pc'[u] \in {"start_sh", "wait_sh", "test_sh", "free_test_sh", "enter_wait_sh"} =>
              pc'[u] = pc[u] /\ ~LeftBehind(h)
        BY <1>16, <1>20, <2>2 DEF SendLocs
      <3>2. "MATCH" \in Going /\ "FREE" \notin Going /\ "CREATE" \notin Going
        BY DEF Going, PEND
      <3> QED  BY <1>3, <1>11, <1>12, <1>26, <2>1, <2>2, <3>1, <3>2 DEF LeftBehind
    <2>3. CASE cur[u] # h
      <3>1. pc'[u] = pc[u]
        BY <1>16, <2>3
      <3>2. pc[u] \in SendLocs => sh'[cur[u]] = sh[cur[u]]
        BY <1>13, <1>20, <2>3
      <3> QED  BY <2>1, <3>1, <3>2 DEF SendLocs
    <2> QED  BY <2>2, <2>3
  <1>28. RecvStates'
    <2>1. ASSUME NEW u \in Nodes, u # t, pc'[u] \in RecvLocs PROVE pc[u] = pc'[u] /\ rh'[cur[u]] = rh[cur[u]]
      BY <1>3, <1>10, <1>16, <2>1 DEF RecvLocs, Good, Working
    <2>2. pc'[t] \in {"enter_wait_rh", "idle"} /\ rh'[cur[t]].stat \in Going
      BY <1>3, <1>10, <1>15, <1>16 DEF Going
    <2> QED  BY <1>4, <2>1, <2>2 DEF Good, RecvStates, RecvLocs
  <1>29. NoMissed'
    <2>1. \A x \in RH : rh'[x].stat \in PEND => rh'[x] = rh[x]
      BY <1>10 DEF PEND
    <2>2. \A x \in SH : sh'[x].stat \in PEND => sh'[x] = sh[x]
      BY <1>12, <1>13 DEF PEND
    <2> QED  BY <1>4, <2>1, <2>2 DEF Good, NoMissed
  <1>30. NoLostWakeup'
    <2>1. ASSUME NEW u \in Nodes, pc'[u] = "sleep_sh" PROVE sh'[cur[u]].stat = "PEND_WAIT"
      <3>1. u # t /\ pc[u] = "sleep_sh" /\ sh[cur[u]].stat = "PEND_WAIT" /\ cur[u] \in SH
        BY <1>15, <1>16, <2>1 DEF Good, NoLostWakeup, Working, SendLocs
      <3>2. cur[u] # h
        BY <1>16, <2>1, <3>1
      <3> QED  BY <1>13, <3>1, <3>2
    <2>2. ASSUME NEW u \in Nodes, pc'[u] = "sleep_rh" PROVE rh'[cur[u]].stat = "PEND_WAIT"
      <3>1. u # t /\ pc[u] = "sleep_rh" /\ rh[cur[u]].stat = "PEND_WAIT" /\ cur[u] \in RH
        BY <1>15, <1>16, <2>2 DEF Good, NoLostWakeup, Working, RecvLocs
      <3> QED  BY <1>3, <1>10, <3>1
    <2> QED  BY <1>4, <2>1, <2>2 DEF NoLostWakeup
  <1>31. Fresh'
    <2>0. Fresh
      BY DEF Good
    <2>1. \A n \in Nodes, x \in SH : InQueue(sq'[n], x) /\ sh'[x].stat \in PEND => FreshSend(x)'
      <3>1. \A x \in SH : sh'[x].stat \in PEND => x # h /\ sh[x].stat \in PEND
        BY <1>12, <1>13 DEF PEND
      <3> QED  BY <1>4, <1>14, <2>0, <3>1 DEF Fresh
    <2>2. \A n \in Nodes, x \in RH : InQueue(rq'[n], x) /\ rh'[x].stat \in PEND => FreshRecv(x)'
      <3>1. \A x \in RH : rh'[x].stat \in PEND => x # r /\ rh[x].stat \in PEND
        BY <1>10 DEF PEND
      <3> QED  BY <1>4, <1>14, <2>0, <3>1 DEF Fresh
    <2>3. ASSUME NEW u \in Nodes
          PROVE  /\ pc'[u] = "fill_rh" => (FreshSend(cur[u]) /\ FreshRecv(found[u]))'
                 /\ pc'[u] = "fill_sh" => (FreshSend(found[u]) /\ FreshRecv(cur[u]))'
      <3>1. /\ pc'[u] = "fill_rh" => u # t /\ pc[u] = "fill_rh"
            /\ pc'[u] = "fill_sh" => u # t /\ pc[u] = "fill_sh"
        BY <1>15, <1>16
      <3> QED  BY <1>4, <1>14, <1>18, <1>19, <2>0, <3>1 DEF Fresh
    <2> QED  BY <2>1, <2>2, <2>3 DEF Fresh
  <1>32. \A x \in SH : x # h /\ SendBeingFilled(x) => SendBeingFilled(x)'
    BY <1>3, <1>4, <1>16 DEF SendBeingFilled
  <1>33. Answered'
    <2>0. Answered
      BY DEF Good
    <2>1. \A u \in Nodes : u # t =>
            /\ pc'[u] \in SendLocs <=> pc[u] \in SendLocs
            /\ pc'[u] \in RecvLocs <=> pc[u] \in RecvLocs
            /\ pc[u] \in BlockingSend => pc'[u] \in BlockingSend
            /\ pc[u] \in BlockingRecv => pc'[u] \in BlockingRecv
      BY <1>16 DEF SendLocs, RecvLocs, BlockingSend, BlockingRecv
    <2>2. /\ pc[t] \notin SendLocs /\ pc'[t] \notin SendLocs /\ pc[t] \in RecvLocs
          /\ pc'[t] \in RecvLocs => pc'[t] \in BlockingRecv
          /\ pc'[t] \in RecvLocs <=> rh[r].type = "RECV"
      BY <1>1, <1>15, <1>16 DEF SendLocs, RecvLocs, BlockingRecv
    <2>3. \A x \in RH : rh'[x].live = rh[x].live /\ rh'[x].held = rh[x].held /\ rh'[x].type = rh[x].type
      BY <1>10
    <2>4. \A u \in Nodes : pc[u] \in RecvLocs => cur[u] \in RH
      BY DEF Good, Working
    <2>5. \A u \in Nodes : pc[u] \in SendLocs =>
            /\ sh'[cur[u]].live = sh[cur[u]].live /\ sh'[cur[u]].held = sh[cur[u]].held
            /\ sh'[cur[u]].type = sh[cur[u]].type
      BY <1>12, <1>13, <1>20
    <2>6. \A u \in Nodes :
            /\ pc'[u] \in SendLocs /\ sh'[cur'[u]].live =>
                 sh'[cur'[u]].held \/ (sh'[cur'[u]].type = "SEND" /\ pc'[u] \in BlockingSend)
            /\ pc'[u] \in RecvLocs /\ rh'[cur'[u]].live =>
                 rh'[cur'[u]].held \/ (rh'[cur'[u]].type = "RECV" /\ pc'[u] \in BlockingRecv)
      BY <1>4, <2>0, <2>1, <2>2, <2>3, <2>4, <2>5 DEF Answered
    <2>7. ASSUME NEW x \in SH
          PROVE  /\ sh'[x].type # "PERSISTENT" /\ sh'[x].stat \in PEND =>
                      InQueue(sq'[sh'[x].dest], x) \/ SendBeingFilled(x)'
                 /\ LeftBehind(x)' => ~sh'[x].held /\ ~(pc'[x[1]] \in SendLocs /\ cur'[x[1]] = x)
                 /\ sh'[x].live => sh'[x].held \/ (pc'[x[1]] \in SendLocs /\ cur'[x[1]] = x) \/ LeftBehind(x)'
                 /\ sh'[x].held => sh'[x].type # "SEND"
      <3>1. x[1] \in Nodes
        BY DEF SH
      <3>2. CASE x = h
        <4>1. sh'[h].stat \notin PEND /\ ~LeftBehind(h)'
          BY <1>12 DEF PEND, LeftBehind
        <4>2. sh[h].held => sh[h].type # "SEND"
          BY <2>0 DEF Answered
        <4>3. sh[h].live => sh[h].held \/ (pc[h[1]] \in SendLocs /\ cur[h[1]] = h) \/ LeftBehind(h)
          BY <2>0 DEF Answered
        <4> QED  BY <1>4, <1>9, <1>12, <2>1, <2>2, <3>2, <4>1, <4>2, <4>3
      <3>3. CASE x # h
        BY <1>4, <1>13, <1>32, <2>0, <2>1, <2>2, <3>1, <3>3 DEF Answered, LeftBehind
      <3> QED  BY <3>2, <3>3
    <2>8. ASSUME NEW x \in RH
          PROVE  /\ rh'[x].live => rh'[x].held \/ (pc'[x[1]] \in RecvLocs /\ cur'[x[1]] = x)
                 /\ rh'[x].held => rh'[x].type # "RECV"
      <3>1. x[1] \in Nodes
        BY DEF RH
      <3>2. x = r => (rh[r].live => rh[r].held \/ rh[r].type = "RECV")
        BY <1>3, <2>0, <2>2 DEF Answered
      <3> QED  BY <1>3, <1>4, <2>0, <2>1, <2>2, <2>3, <3>1, <3>2 DEF Answered
    <2> QED  BY <2>6, <2>7, <2>8 DEF Answered
  <1> QED  BY <1>14, <1>17, <1>21, <1>22, <1>23, <1>24, <1>25, <1>27, <1>28, <1>29, <1>30, <1>31,
              <1>33 DEF Good

----------------------------------------------------------------------------
(* The calls of a program. *)

\* tmpi_intra_init_sh: the handle is new, and no queue knows it.
LEMMA InitSendStep ==
  ASSUME Good, NEW t \in Nodes, NEW c \in SendCalls, NEW sys \in BOOLEAN, InitSend(t, c, sys)
  PROVE  Good'
  <1>1. nsh[t] \in Nat /\ nsh[t] < MaxSends /\ pc[t] = "idle"
    BY DEF Good, Types, InitSend, Goto
  <1>2. PICK h \in SH : h = <<t, nsh[t] + 1>> /\ h[1] = t /\ h[2] = nsh[t] + 1
    <2>1. nsh[t] + 1 \in 1..MaxSends
      BY <1>1, BoundsAssumption
    <2>2. <<t, nsh[t] + 1>> \in SH
      BY <2>1 DEF SH
    <2> QED  BY <2>2
  <1> DEFINE s == [stat |-> "CREATE", type |-> c.type, mode |-> c.mode,
                   dest |-> c.dest, tag |-> c.tag, len |-> c.len, sys_buf |-> sys,
                   curdata |-> "user", msg |-> 0, live |-> TRUE,
                   held |-> c.type # "SEND"]
             l == IF c.type = "PERSISTENT" THEN "idle" ELSE "start_sh"
  <1>3. /\ sh' = [sh EXCEPT ![h] = s] /\ cur' = [cur EXCEPT ![t] = h]
        /\ pc' = [pc EXCEPT ![t] = l] /\ nsh' = [nsh EXCEPT ![t] = @ + 1]
    BY <1>2 DEF InitSend, Goto
  <1>4. UNCHANGED <<rh, sq, rq, chlock, shlock, found, nrh, spurious, sent, posted, matched>>
    BY DEF InitSend, queues, locks, history
  <1>5. /\ s \in SendHandle /\ s.stat = "CREATE" /\ s.msg = 0 /\ s.type = c.type /\ s.dest \in Nodes
        /\ s.held = (c.type # "SEND")
    BY CallsAssumption DEF SendHandle, Stats, Tags
  <1>6. l \in {"idle", "start_sh"} /\ (l = "start_sh" <=> s.type # "PERSISTENT")
    OBVIOUS
  <1> HIDE DEF s, l
  <1>7. /\ sh'[h] = s /\ \A x \in SH : x # h => sh'[x] = sh[x]
        /\ pc'[t] = l /\ \A u \in Nodes : u # t => pc'[u] = pc[u]
        /\ cur'[t] = h /\ \A u \in Nodes : u # t => cur'[u] = cur[u]
        /\ nsh'[t] = nsh[t] + 1 /\ \A u \in Nodes : u # t => nsh'[u] = nsh[u]
    BY <1>3 DEF Good, Types
  <1>8. sh[h] = NoSend
    BY <1>1, <1>2 DEF Good, Unborn
  <1>9. \A n \in Nodes : ~InQueue(sq[n], h)
    <2>1. sh[h].stat = "NONE"
      BY <1>8 DEF NoSend
    <2> QED  BY <2>1 DEF Good, Queues
  <1>10. \A u \in Nodes : pc[u] = "fill_sh" => found[u] \in SH /\ found[u] # h
    BY <1>8 DEF Good, Filling, FillingSend, NoSend
  <1>11. \A u \in Nodes : u # t /\ pc[u] \in SendLocs => cur[u] \in SH /\ cur[u] # h /\ sh'[cur[u]] = sh[cur[u]]
    BY <1>2, <1>7 DEF Good, Working
  <1>12. Types'
    <2>1. /\ sh' \in [SH -> SendHandle] /\ pc' \in [Nodes -> Locations]
          /\ nsh' \in [Nodes -> Nat]
      BY <1>1, <1>3, <1>5, <1>6 DEF Good, Types, Locations, SendLocs
    <2>2. h \in Handles
      BY <1>1, <1>2 DEF Handles
    <2>3. cur' \in [Nodes -> Handles]
      BY <1>3, <2>2 DEF Good, Types
    <2> QED  BY <1>4, <2>1, <2>3 DEF Good, Types
  <1>13. NoFault'
    BY <1>6, <1>7 DEF Good, NoFault
  <1>14. Working'
    <2>1. \A u \in Nodes : nsh[u] \in Nat
      BY DEF Good, Types
    <2>2. ASSUME NEW u \in Nodes
          PROVE  /\ pc'[u] \in SendLocs =>
                      /\ cur'[u] \in SH /\ cur'[u][1] = u /\ cur'[u][2] <= nsh'[u]
                      /\ sh'[cur'[u]].dest \in Nodes
                 /\ pc'[u] \in RecvLocs => cur'[u] \in RH /\ cur'[u][1] = u /\ cur'[u][2] <= nrh'[u]
      <3>1. CASE u = t
        BY <1>1, <1>2, <1>5, <1>6, <1>7, <3>1 DEF RecvLocs
      <3>2. CASE u # t
        BY <1>4, <1>7, <1>11, <3>2 DEF Good, Working
      <3> QED  BY <3>1, <3>2
    <2> QED  BY <2>2 DEF Working
  <1>15. Filling'
    <2>1. ASSUME NEW u \in Nodes, pc'[u] = "fill_rh" PROVE FillingRecv(u)'
      <3>1. u # t /\ pc[u] = "fill_rh" /\ cur'[u] = cur[u] /\ sh'[cur[u]] = sh[cur[u]]
        BY <1>6, <1>7, <1>11, <2>1 DEF SendLocs
      <3>2. FillingRecv(u)
        BY <3>1 DEF Good, Filling
      <3> QED  BY <1>4, <3>1, <3>2 DEF FillingRecv
    <2>2. ASSUME NEW u \in Nodes, pc'[u] = "fill_sh" PROVE FillingSend(u)'
      <3>1. u # t /\ pc[u] = "fill_sh" /\ cur'[u] = cur[u] /\ sh'[found[u]] = sh[found[u]]
        BY <1>6, <1>7, <1>10, <2>2
      <3>2. FillingSend(u)
        BY <3>1 DEF Good, Filling
      <3> QED  BY <1>4, <3>1, <3>2 DEF FillingSend
    <2> QED  BY <2>1, <2>2 DEF Filling
  <1>16. Queues'
    <2>0. Queues
      BY DEF Good
    <2>1. \A n \in Nodes, x \in SH : InQueue(sq[n], x) => sh'[x] = sh[x]
      BY <1>7, <1>9
    <2> QED  BY <1>4, <2>0, <2>1 DEF Queues
  <1>17. Unborn'
    <2>1. ASSUME NEW x \in SH PROVE sh'[x] = NoSend \/ (x[2] <= nsh'[x[1]] /\ sh'[x].dest \in Nodes)
      <3>1. CASE x = h
        BY <1>1, <1>2, <1>5, <1>7, <3>1
      <3>2. CASE x # h
        <4>1. x[1] \in Nodes /\ x[2] \in Nat /\ nsh[x[1]] \in Nat
          BY BoundsAssumption DEF SH, Good, Types
        <4>2. sh[x] = NoSend \/ (x[2] <= nsh[x[1]] /\ sh[x].dest \in Nodes)
          BY DEF Good, Unborn
        <4>3. nsh[x[1]] <= nsh'[x[1]] /\ nsh'[x[1]] \in Nat
          BY <1>7, <4>1
        <4> QED  BY <1>7, <3>2, <4>1, <4>2, <4>3
      <3> QED  BY <3>1, <3>2
    <2> QED  BY <1>4, <2>1 DEF Good, Unborn
  <1>18. SendStates'
    <2> SUFFICES ASSUME NEW u \in Nodes
                 PROVE  /\ pc'[u] = "start_sh" => sh'[cur'[u]].stat \in {"CREATE", "FREE"}
                        /\ pc'[u] \in {"wait_sh", "test_sh", "free_test_sh"} =>
                             \/ sh'[cur'[u]].stat \in Going
                             \/ sh'[cur'[u]].type = "PERSISTENT" /\ \A n \in Nodes : ~InQueue(sq'[n], cur'[u])
                        /\ pc'[u] = "enter_wait_sh" /\ sh'[cur'[u]].type = "SEND" => sh'[cur'[u]].stat \in Going
      BY DEF SendStates
    <2>1. CASE u = t
      BY <1>5, <1>6, <1>7, <2>1
    <2>2. CASE u # t
      <3>1. pc'[u] = pc[u] /\ cur'[u] = cur[u]
        BY <1>7, <2>2
      <3> QED  BY <1>4, <1>11, <2>2, <3>1 DEF Good, SendStates, SendLocs
    <2> QED  BY <2>1, <2>2
  <1>19. RecvStates'
    BY <1>4, <1>6, <1>7 DEF Good, RecvStates
  <1>20. NoMissed'
    <2>1. \A x \in SH : sh'[x].stat \in PEND => sh'[x] = sh[x]
      BY <1>5, <1>7 DEF PEND
    <2> QED  BY <1>4, <2>1 DEF Good, NoMissed
  <1>21. NoLostWakeup'
    <2>1. \A u \in Nodes : pc'[u] = "sleep_sh" =>
            u # t /\ pc[u] = "sleep_sh" /\ cur'[u] = cur[u] /\ sh'[cur[u]] = sh[cur[u]]
      BY <1>6, <1>7, <1>11 DEF SendLocs
    <2>2. \A u \in Nodes : pc'[u] = "sleep_rh" => u # t /\ pc[u] = "sleep_rh" /\ cur'[u] = cur[u]
      BY <1>6, <1>7
    <2> QED  BY <1>4, <2>1, <2>2 DEF Good, NoLostWakeup
  <1>22. Numbers'
    <2>0. Numbers
      BY DEF Good
    <2>1. \A x \in SH : sh'[x].msg = sh[x].msg
      BY <1>5, <1>7, <1>8 DEF NoSend
    <2> QED  BY <1>4, <2>0, <2>1 DEF Numbers
  <1>23. \A x \in SH : x # h /\ FreshSend(x) => FreshSend(x)'
    BY <1>4, <1>7 DEF FreshSend
  <1>24. \A x \in RH : FreshRecv(x) => FreshRecv(x)'
    BY <1>4 DEF FreshRecv
  <1>25. Fresh'
    <2>0. Fresh
      BY DEF Good
    <2>1. \A n \in Nodes, x \in SH : InQueue(sq'[n], x) /\ sh'[x].stat \in PEND => FreshSend(x)'
      BY <1>4, <1>7, <1>9, <1>23, <2>0 DEF Fresh
    <2>2. \A n \in Nodes, x \in RH : InQueue(rq'[n], x) /\ rh'[x].stat \in PEND => FreshRecv(x)'
      BY <1>4, <1>24, <2>0 DEF Fresh
    <2>3. ASSUME NEW u \in Nodes
          PROVE  /\ pc'[u] = "fill_rh" => (FreshSend(cur[u]) /\ FreshRecv(found[u]))'
                 /\ pc'[u] = "fill_sh" => (FreshSend(found[u]) /\ FreshRecv(cur[u]))'
      <3>1. /\ pc'[u] = "fill_rh" => u # t /\ pc[u] = "fill_rh" /\ cur'[u] = cur[u]
            /\ pc'[u] = "fill_sh" => u # t /\ pc[u] = "fill_sh" /\ cur'[u] = cur[u]
        BY <1>6, <1>7
      <3>2. /\ pc[u] = "fill_rh" => found[u] \in RH
            /\ pc[u] = "fill_sh" => cur[u] \in RH
        BY DEF Good, Working, Filling, FillingRecv, RecvLocs
      <3> QED  BY <1>4, <1>10, <1>11, <1>23, <1>24, <2>0, <3>1, <3>2 DEF Fresh, SendLocs
    <2> QED  BY <2>1, <2>2, <2>3 DEF Fresh
  <1>26. Matched'
    BY <1>4 DEF Good, Matched, ExactlyOnce
  <1>27. \A x \in SH : SendBeingFilled(x) => SendBeingFilled(x)'
    BY <1>1, <1>4, <1>7 DEF SendBeingFilled
  <1>28. Answered'
    <2>0. Answered
      BY DEF Good
    <2>1. /\ pc[t] \notin SendLocs /\ pc[t] \notin RecvLocs /\ pc'[t] \notin RecvLocs
          /\ pc'[t] \in SendLocs => pc'[t] \in BlockingSend
          /\ pc'[t] \in SendLocs <=> c.type # "PERSISTENT"
      BY <1>1, <1>5, <1>6, <1>7 DEF SendLocs, RecvLocs, BlockingSend
    <2>2. ASSUME NEW u \in Nodes
          PROVE  /\ pc'[u] \in SendLocs /\ sh'[cur'[u]].live =>
                      sh'[cur'[u]].held \/ (sh'[cur'[u]].type = "SEND" /\ pc'[u] \in BlockingSend)
                 /\ pc'[u] \in RecvLocs /\ rh'[cur'[u]].live =>
                      rh'[cur'[u]].held \/ (rh'[cur'[u]].type = "RECV" /\ pc'[u] \in BlockingRecv)
      <3>1. CASE u = t
        BY <1>5, <1>7, <2>1, <3>1
      <3>2. CASE u # t
        BY <1>4, <1>7, <1>11, <2>0, <3>2 DEF Answered
      <3> QED  BY <3>1, <3>2
    <2>3. ASSUME NEW x \in SH
          PROVE  /\ sh'[x].type # "PERSISTENT" /\ sh'[x].stat \in PEND =>
                      InQueue(sq'[sh'[x].dest], x) \/ SendBeingFilled(x)'
                 /\ LeftBehind(x)' => ~sh'[x].held /\ ~(pc'[x[1]] \in SendLocs /\ cur'[x[1]] = x)
                 /\ sh'[x].live => sh'[x].held \/ (pc'[x[1]] \in SendLocs /\ cur'[x[1]] = x) \/ LeftBehind(x)'
                 /\ sh'[x].held => sh'[x].type # "SEND"
      <3>1. x[1] \in Nodes
        BY DEF SH
      <3>2. CASE x = h
        BY <1>2, <1>5, <1>7, <2>1, <3>2 DEF LeftBehind, PEND
      <3>3. CASE x # h
        BY <1>4, <1>7, <1>27, <2>0, <2>1, <3>1, <3>3 DEF Answered, LeftBehind
      <3> QED  BY <3>2, <3>3
    <2>4. ASSUME NEW x \in RH
          PROVE  /\ rh'[x].live => rh'[x].held \/ (pc'[x[1]] \in RecvLocs /\ cur'[x[1]] = x)
                 /\ rh'[x].held => rh'[x].type # "RECV"
      <3>1. x[1] \in Nodes
        BY DEF RH
      <3> QED  BY <1>4, <1>7, <2>0, <2>1, <3>1 DEF Answered
    <2> QED  BY <2>2, <2>3, <2>4 DEF Answered
  <1> QED  BY <1>12, <1>13, <1>14, <1>15, <1>16, <1>17, <1>18, <1>19, <1>20, <1>21, <1>22, <1>25,
              <1>26, <1>28 DEF Good

\* tmpi_intra_init_rh likewise.
LEMMA InitRecvStep ==
  ASSUME Good, NEW t \in Nodes, NEW c \in RecvCalls, InitRecv(t, c)
  PROVE  Good'
  <1>1. nrh[t] \in Nat /\ nrh[t] < MaxRecvs /\ pc[t] = "idle"
    BY DEF Good, Types, InitRecv, Goto
  <1>2. PICK r \in RH : r = <<t, nrh[t] + 1>> /\ r[1] = t /\ r[2] = nrh[t] + 1
    <2>1. nrh[t] + 1 \in 1..MaxRecvs
      BY <1>1, BoundsAssumption
    <2>2. <<t, nrh[t] + 1>> \in RH
      BY <2>1 DEF RH
    <2> QED  BY <2>2
  <1> DEFINE s == [stat |-> "CREATE", type |-> c.type, src |-> c.src, tag |-> c.tag,
                   msg |-> 0, live |-> TRUE, held |-> c.type # "RECV"]
             l == IF c.type = "INIT" THEN "idle" ELSE "start_rh"
  <1>3. /\ rh' = [rh EXCEPT ![r] = s] /\ cur' = [cur EXCEPT ![t] = r]
        /\ pc' = [pc EXCEPT ![t] = l] /\ nrh' = [nrh EXCEPT ![t] = @ + 1]
    BY <1>2 DEF InitRecv, Goto
  <1>4. UNCHANGED <<sh, sq, rq, chlock, shlock, found, nsh, spurious, sent, posted, matched>>
    BY DEF InitRecv, queues, locks, history
  <1>5. /\ s \in RecvHandle /\ s.stat = "CREATE" /\ s.msg = 0 /\ s.type = c.type
        /\ s.held = (c.type # "RECV")
    BY CallsAssumption DEF RecvHandle, Stats, PEND, Tags
  <1>6. l \in {"idle", "start_rh"} /\ (l = "start_rh" <=> s.type # "INIT")
    OBVIOUS
  <1> HIDE DEF s, l
  <1>7. /\ rh'[r] = s /\ \A x \in RH : x # r => rh'[x] = rh[x]
        /\ pc'[t] = l /\ \A u \in Nodes : u # t => pc'[u] = pc[u]
        /\ cur'[t] = r /\ \A u \in Nodes : u # t => cur'[u] = cur[u]
        /\ nrh'[t] = nrh[t] + 1 /\ \A u \in Nodes : u # t => nrh'[u] = nrh[u]
    BY <1>3 DEF Good, Types
  <1>8. rh[r] = NoRecv
    BY <1>1, <1>2 DEF Good, Unborn
  <1>9. \A n \in Nodes : ~InQueue(rq[n], r)
    <2>1. rh[r].stat = "NONE"
      BY <1>8 DEF NoRecv
    <2> QED  BY <2>1 DEF Good, Queues
  <1>10. \A u \in Nodes : pc[u] = "fill_rh" => found[u] \in RH /\ found[u] # r
    BY <1>8 DEF Good, Filling, FillingRecv, NoRecv
  <1>11. \A u \in Nodes : u # t /\ pc[u] \in RecvLocs => cur[u] \in RH /\ cur[u] # r /\ rh'[cur[u]] = rh[cur[u]]
    BY <1>2, <1>7 DEF Good, Working
  <1>12. Types'
    <2>1. /\ rh' \in [RH -> RecvHandle] /\ pc' \in [Nodes -> Locations]
          /\ nrh' \in [Nodes -> Nat]
      BY <1>1, <1>3, <1>5, <1>6 DEF Good, Types, Locations, RecvLocs
    <2>2. r \in Handles
      BY <1>1, <1>2 DEF Handles
    <2>3. cur' \in [Nodes -> Handles]
      BY <1>3, <2>2 DEF Good, Types
    <2> QED  BY <1>4, <2>1, <2>3 DEF Good, Types
  <1>13. NoFault'
    BY <1>6, <1>7 DEF Good, NoFault
  <1>14. Working'
    <2>1. ASSUME NEW u \in Nodes
          PROVE  /\ pc'[u] \in SendLocs =>
                      /\ cur'[u] \in SH /\ cur'[u][1] = u /\ cur'[u][2] <= nsh'[u]
                      /\ sh'[cur'[u]].dest \in Nodes
                 /\ pc'[u] \in RecvLocs => cur'[u] \in RH /\ cur'[u][1] = u /\ cur'[u][2] <= nrh'[u]
      <3>1. CASE u = t
        BY <1>1, <1>2, <1>6, <1>7, <3>1 DEF SendLocs
      <3>2. CASE u # t
        BY <1>4, <1>7, <3>2 DEF Good, Working
      <3> QED  BY <3>1, <3>2
    <2> QED  BY <2>1 DEF Working
  <1>15. Filling'
    <2>1. ASSUME NEW u \in Nodes, pc'[u] = "fill_rh" PROVE FillingRecv(u)'
      <3>1. u # t /\ pc[u] = "fill_rh" /\ cur'[u] = cur[u] /\ rh'[found[u]] = rh[found[u]]
        BY <1>6, <1>7, <1>10, <2>1
      <3>2. FillingRecv(u)
        BY <3>1 DEF Good, Filling
      <3> QED  BY <1>4, <3>1, <3>2 DEF FillingRecv
    <2>2. ASSUME NEW u \in Nodes, pc'[u] = "fill_sh" PROVE FillingSend(u)'
      <3>1. u # t /\ pc[u] = "fill_sh" /\ cur'[u] = cur[u] /\ rh'[cur[u]] = rh[cur[u]]
        BY <1>6, <1>7, <1>11, <2>2 DEF RecvLocs
      <3>2. FillingSend(u)
        BY <3>1 DEF Good, Filling
      <3> QED  BY <1>4, <3>1, <3>2 DEF FillingSend
    <2> QED  BY <2>1, <2>2 DEF Filling
  <1>16. Queues'
    <2>0. Queues
      BY DEF Good
    <2>1. \A n \in Nodes, x \in RH : InQueue(rq[n], x) => rh'[x] = rh[x]
      BY <1>7, <1>9
    <2> QED  BY <1>4, <2>0, <2>1 DEF Queues
  <1>17. Unborn'
    <2>1. ASSUME NEW x \in RH PROVE x[2] <= nrh'[x[1]] \/ rh'[x] = NoRecv
      <3>1. CASE x = r
        BY <1>1, <1>2, <1>7, <3>1
      <3>2. CASE x # r
        <4>1. x[1] \in Nodes /\ x[2] \in Nat /\ nrh[x[1]] \in Nat
          BY BoundsAssumption DEF RH, Good, Types
        <4>2. x[2] <= nrh[x[1]] \/ rh[x] = NoRecv
          BY DEF Good, Unborn
        <4>3. nrh[x[1]] <= nrh'[x[1]] /\ nrh'[x[1]] \in Nat
          BY <1>7, <4>1
        <4> QED  BY <1>7, <3>2, <4>1, <4>2, <4>3
      <3> QED  BY <3>1, <3>2
    <2> QED  BY <1>4, <2>1 DEF Good, Unborn
  <1>18. SendStates'
    <2>1. \A u \in Nodes : pc'[u] \in SendLocs => pc'[u] = pc[u] /\ cur'[u] = cur[u]
      BY <1>6, <1>7 DEF SendLocs
    <2> QED  BY <1>4, <2>1 DEF Good, SendStates, SendLocs
  <1>19. RecvStates'
    <2> SUFFICES ASSUME NEW u \in Nodes
                 PROVE  /\ pc'[u] = "start_rh" => rh'[cur'[u]].stat = "CREATE"
                        /\ pc'[u] = "wait_rh" => rh'[cur'[u]].stat \in Going
                        /\ pc'[u] = "wake_rh" => rh'[cur'[u]].stat \in {"PEND_WAIT", "MATCH"}
                        /\ pc'[u] = "enter_wait_rh" /\ rh'[cur'[u]].type = "RECV" =>
                             rh'[cur'[u]].stat \in Going
      BY DEF RecvStates
    <2>1. CASE u = t
      BY <1>5, <1>6, <1>7, <2>1
    <2>2. CASE u # t
      <3>1. pc'[u] = pc[u] /\ cur'[u] = cur[u]
        BY <1>7, <2>2
      <3> QED  BY <1>11, <2>2, <3>1 DEF Good, RecvStates, RecvLocs
    <2> QED  BY <2>1, <2>2
  <1>20. NoMissed'
    <2>1. \A x \in RH : rh'[x].stat \in PEND => rh'[x] = rh[x]
      BY <1>5, <1>7 DEF PEND
    <2> QED  BY <1>4, <2>1 DEF Good, NoMissed
  <1>21. NoLostWakeup'
    <2>1. \A u \in Nodes : pc'[u] = "sleep_rh" =>
            u # t /\ pc[u] = "sleep_rh" /\ cur'[u] = cur[u] /\ rh'[cur[u]] = rh[cur[u]]
      BY <1>6, <1>7, <1>11 DEF RecvLocs
    <2>2. \A u \in Nodes : pc'[u] = "sleep_sh" => u # t /\ pc[u] = "sleep_sh" /\ cur'[u] = cur[u]
      BY <1>6, <1>7
    <2> QED  BY <1>4, <2>1, <2>2 DEF Good, NoLostWakeup
  <1>22. Numbers'
    <2>0. Numbers
      BY DEF Good
    <2>1. \A x \in RH : rh'[x].msg = rh[x].msg
      BY <1>5, <1>7, <1>8 DEF NoRecv
    <2> QED  BY <1>4, <2>0, <2>1 DEF Numbers
  <1>23. \A x \in RH : x # r /\ FreshRecv(x) => FreshRecv(x)'
    BY <1>4, <1>7 DEF FreshRecv
  <1>24. \A x \in SH : FreshSend(x) => FreshSend(x)'
    BY <1>4 DEF FreshSend
  <1>25. Fresh'
    <2>0. Fresh
      BY DEF Good
    <2>1. \A n \in Nodes, x \in SH : InQueue(sq'[n], x) /\ sh'[x].stat \in PEND => FreshSend(x)'
      BY <1>4, <1>24, <2>0 DEF Fresh
    <2>2. \A n \in Nodes, x \in RH : InQueue(rq'[n], x) /\ rh'[x].stat \in PEND => FreshRecv(x)'
      BY <1>4, <1>7, <1>9, <1>23, <2>0 DEF Fresh
    <2>3. ASSUME NEW u \in Nodes
          PROVE  /\ pc'[u] = "fill_rh" => (FreshSend(cur[u]) /\ FreshRecv(found[u]))'
                 /\ pc'[u] = "fill_sh" => (FreshSend(found[u]) /\ FreshRecv(cur[u]))'
      <3>1. /\ pc'[u] = "fill_rh" => u # t /\ pc[u] = "fill_rh" /\ cur'[u] = cur[u]
            /\ pc'[u] = "fill_sh" => u # t /\ pc[u] = "fill_sh" /\ cur'[u] = cur[u]
        BY <1>6, <1>7
      <3>2. /\ pc[u] = "fill_rh" => cur[u] \in SH
            /\ pc[u] = "fill_sh" => found[u] \in SH
        BY DEF Good, Working, Filling, FillingSend, SendLocs
      <3> QED  BY <1>4, <1>10, <1>11, <1>23, <1>24, <2>0, <3>1, <3>2 DEF Fresh, RecvLocs
    <2> QED  BY <2>1, <2>2, <2>3 DEF Fresh
  <1>26. Matched'
    BY <1>4 DEF Good, Matched, ExactlyOnce
  <1>27. \A x \in SH : SendBeingFilled(x) => SendBeingFilled(x)'
    BY <1>1, <1>4, <1>7 DEF SendBeingFilled
  <1>28. Answered'
    <2>0. Answered
      BY DEF Good
    <2>1. /\ pc[t] \notin SendLocs /\ pc[t] \notin RecvLocs /\ pc'[t] \notin SendLocs
          /\ pc'[t] \in RecvLocs => pc'[t] \in BlockingRecv
          /\ pc'[t] \in RecvLocs <=> c.type # "INIT"
      BY <1>1, <1>5, <1>6, <1>7 DEF SendLocs, RecvLocs, BlockingRecv
    <2>2. ASSUME NEW u \in Nodes
          PROVE  /\ pc'[u] \in SendLocs /\ sh'[cur'[u]].live =>
                      sh'[cur'[u]].held \/ (sh'[cur'[u]].type = "SEND" /\ pc'[u] \in BlockingSend)
                 /\ pc'[u] \in RecvLocs /\ rh'[cur'[u]].live =>
                      rh'[cur'[u]].held \/ (rh'[cur'[u]].type = "RECV" /\ pc'[u] \in BlockingRecv)
      <3>1. CASE u = t
        BY <1>5, <1>7, <2>1, <3>1
      <3>2. CASE u # t
        BY <1>4, <1>7, <1>11, <2>0, <3>2 DEF Answered
      <3> QED  BY <3>1, <3>2
    <2>3. ASSUME NEW x \in SH
          PROVE  /\ sh'[x].type # "PERSISTENT" /\ sh'[x].stat \in PEND =>
                      InQueue(sq'[sh'[x].dest], x) \/ SendBeingFilled(x)'
                 /\ LeftBehind(x)' => ~sh'[x].held /\ ~(pc'[x[1]] \in SendLocs /\ cur'[x[1]] = x)
                 /\ sh'[x].live => sh'[x].held \/ (pc'[x[1]] \in SendLocs /\ cur'[x[1]] = x) \/ LeftBehind(x)'
                 /\ sh'[x].held => sh'[x].type # "SEND"
      <3>1. x[1] \in Nodes
        BY DEF SH
      <3> QED  BY <1>4, <1>7, <1>27, <2>0, <2>1, <3>1 DEF Answered, LeftBehind
    <2>4. ASSUME NEW x \in RH
          PROVE  /\ rh'[x].live => rh'[x].held \/ (pc'[x[1]] \in RecvLocs /\ cur'[x[1]] = x)
                 /\ rh'[x].held => rh'[x].type # "RECV"
      <3>1. x[1] \in Nodes
        BY DEF RH
      <3>2. CASE x = r
        BY <1>2, <1>5, <1>7, <2>1, <3>2
      <3>3. CASE x # r
        BY <1>4, <1>7, <2>0, <2>1, <3>1, <3>3 DEF Answered
      <3> QED  BY <3>2, <3>3
    <2> QED  BY <2>2, <2>3, <2>4 DEF Answered
  <1> QED  BY <1>12, <1>13, <1>14, <1>15, <1>16, <1>17, <1>18, <1>19, <1>20, <1>21, <1>22, <1>25,
              <1>26, <1>28 DEF Good

\* Steps that leave the handles and the queues alone: a failed send, a test that finds
\* nothing and keeps the lock of the handle, a spurious wake-up.
LEMMA SmallStep ==
  ASSUME Good, NEW t \in Nodes,
         \/ \E c \in SendCalls : InitSendFails(t, c)
         \/ \E l \in {"test_sh", "free_test_sh"} : TestSendPending(t, l)
         \/ SpuriousWakeup(t)
  PROVE  Good'
  <1>1. UNCHANGED <<sh, rh, sq, rq, chlock, cur, found, nrh, sent, posted, matched>>
    BY DEF InitSendFails, TestSendPending, SpuriousWakeup, handles, queues, locks, thread, counts, history
  <1>2. /\ \A n \in Nodes : nsh[n] \in Nat /\ nsh'[n] \in Nat /\ nsh[n] <= nsh'[n]
        /\ nsh' \in [Nodes -> Nat] /\ spurious' \in Nat
        /\ shlock' \in [SH -> Nodes \cup {NoNode}]
    <2>0. /\ nsh \in [Nodes -> Nat] /\ spurious \in Nat
          /\ shlock \in [SH -> Nodes \cup {NoNode}]
      BY DEF Good, Types
    <2>1. CASE \E c \in SendCalls : InitSendFails(t, c)
      <3>1. nsh' = [nsh EXCEPT ![t] = @ + 1] /\ UNCHANGED <<spurious, shlock>>
        BY <2>1 DEF InitSendFails, locks
      <3> QED  BY <2>0, <3>1
    <2>2. CASE \E l \in {"test_sh", "free_test_sh"} : TestSendPending(t, l)
      <3>1. shlock' = [shlock EXCEPT ![cur[t]] = t] /\ UNCHANGED <<nsh, spurious>>
        BY <2>2 DEF TestSendPending, counts
      <3>2. shlock' \in [SH -> Nodes \cup {NoNode}]
        BY <2>0, <3>1
      <3>3. /\ \A n \in Nodes : nsh[n] \in Nat /\ nsh'[n] \in Nat /\ nsh[n] <= nsh'[n]
            /\ nsh' \in [Nodes -> Nat] /\ spurious' \in Nat
        BY <2>0, <3>1
      <3> QED  BY <3>2, <3>3
    <2>3. CASE SpuriousWakeup(t)
      BY <2>0, <2>3 DEF SpuriousWakeup, locks
    <2> QED  BY <2>1, <2>2, <2>3
  <1>3. /\ pc' \in [Nodes -> Locations]
        /\ \A u \in Nodes :
             \/ pc'[u] = pc[u]
             \/ u = t /\ pc[u] \in {"test_sh", "free_test_sh"} /\ pc'[u] = "idle"
             \/ u = t /\ pc[u] = "sleep_sh" /\ pc'[u] = "wake_sh"
             \/ u = t /\ pc[u] = "sleep_rh" /\ pc'[u] = "wake_rh"
    <2>1. CASE \E c \in SendCalls : InitSendFails(t, c)
      BY <2>1 DEF InitSendFails, thread, Good, Types
    <2>2. CASE \E l \in {"test_sh", "free_test_sh"} : TestSendPending(t, l)
      BY <2>2 DEF TestSendPending, AtSend, Good, Types, Locations
    <2>3. CASE SpuriousWakeup(t)
      BY <2>3 DEF SpuriousWakeup, Goto, Good, Types, Locations, SendLocs, RecvLocs
    <2> QED  BY <2>1, <2>2, <2>3
  <1>4. Types'
    BY <1>1, <1>2, <1>3 DEF Good, Types
  <1>5. \A u \in Nodes : /\ pc'[u] \in SendLocs => pc[u] \in SendLocs
                         /\ pc'[u] \in RecvLocs => pc[u] \in RecvLocs
    BY <1>3 DEF SendLocs, RecvLocs
  <1>6. NoFault'
    BY <1>3 DEF Good, NoFault
  <1>7. Working'
    <2>1. \A u \in Nodes : pc[u] \in SendLocs => cur[u][2] \in Nat
      BY BoundsAssumption DEF Good, Working, SH
    <2> QED  BY <1>1, <1>2, <1>5, <2>1 DEF Good, Working
  <1>8. Filling'
    <2>1. \A u \in Nodes : /\ pc'[u] = "fill_rh" => pc[u] = "fill_rh"
                           /\ pc'[u] = "fill_sh" => pc[u] = "fill_sh"
      BY <1>3
    <2> QED  BY <1>1, <2>1 DEF Good, Filling, FillingRecv, FillingSend
  <1>9. Queues' /\ NoMissed' /\ Numbers' /\ Matched'
    BY <1>1 DEF Good, Queues, NoMissed, Numbers, Matched, ExactlyOnce
  <1>10. Unborn'
    <2>1. \A x \in SH : x[1] \in Nodes /\ x[2] \in Nat
      BY BoundsAssumption DEF SH
    <2> QED  BY <1>1, <1>2, <2>1 DEF Good, Unborn
  <1>11. SendStates'
    <2>1. \A u \in Nodes : pc'[u] \in {"start_sh", "wait_sh", "test_sh", "free_test_sh", "enter_wait_sh"} =>
            pc'[u] = pc[u]
      BY <1>3
    <2> QED  BY <1>1, <2>1 DEF Good, SendStates
  <1>12. RecvStates'
    <2>1. \A u \in Nodes : /\ pc'[u] \in {"start_rh", "wait_rh", "enter_wait_rh"} => pc'[u] = pc[u]
                           /\ pc'[u] = "wake_rh" => pc[u] = "wake_rh" \/ pc[u] = "sleep_rh"
      BY <1>3
    <2> QED  BY <1>1, <2>1 DEF Good, RecvStates, NoLostWakeup
  <1>13. NoLostWakeup'
    <2>1. \A u \in Nodes : pc'[u] \in {"sleep_sh", "sleep_rh"} => pc'[u] = pc[u]
      BY <1>3
    <2> QED  BY <1>1, <2>1 DEF Good, NoLostWakeup
  <1>14. Fresh'
    <2>1. \A u \in Nodes : pc'[u] \in {"fill_rh", "fill_sh"} => pc'[u] = pc[u]
      BY <1>3
    <2> QED  BY <1>1, <2>1 DEF Good, Fresh, FreshSend, FreshRecv
  <1>15. Answered'
    <2>0. Answered
      BY DEF Good
    <2>1. ASSUME NEW u \in Nodes
          PROVE  /\ pc'[u] \in SendLocs => (pc[u] \in BlockingSend => pc'[u] \in BlockingSend)
                 /\ pc'[u] \in RecvLocs => (pc[u] \in BlockingRecv => pc'[u] \in BlockingRecv)
      BY <1>3 DEF BlockingSend, BlockingRecv
    <2>2. \A u \in Nodes :
            /\ pc'[u] \in SendLocs /\ sh'[cur'[u]].live =>
                 sh'[cur'[u]].held \/ (sh'[cur'[u]].type = "SEND" /\ pc'[u] \in BlockingSend)
            /\ pc'[u] \in RecvLocs /\ rh'[cur'[u]].live =>
                 rh'[cur'[u]].held \/ (rh'[cur'[u]].type = "RECV" /\ pc'[u] \in BlockingRecv)
      BY <1>1, <1>5, <2>0, <2>1 DEF Answered
    <2>3. \A u \in Nodes : pc[u] \in RecvLocs => pc'[u] \in RecvLocs
      BY <1>3 DEF RecvLocs
    <2>4. \A u \in Nodes : pc[u] \in SendLocs => pc'[u] \in SendLocs \/ pc[u] \notin BlockingSend
      BY <1>3 DEF SendLocs, BlockingSend
    <2>5. \A x \in SH : SendBeingFilled(x) => SendBeingFilled(x)'
      BY <1>1, <1>3 DEF SendBeingFilled
    <2>6. ASSUME NEW x \in SH
          PROVE  /\ sh'[x].type # "PERSISTENT" /\ sh'[x].stat \in PEND =>
                      InQueue(sq'[sh'[x].dest], x) \/ SendBeingFilled(x)'
                 /\ LeftBehind(x)' => ~sh'[x].held /\ ~(pc'[x[1]] \in SendLocs /\ cur'[x[1]] = x)
                 /\ sh'[x].live => sh'[x].held \/ (pc'[x[1]] \in SendLocs /\ cur'[x[1]] = x) \/ LeftBehind(x)'
                 /\ sh'[x].held => sh'[x].type # "SEND"
      <3>1. x[1] \in Nodes
        BY DEF SH
      <3> QED  BY <1>1, <1>5, <2>0, <2>4, <2>5, <3>1 DEF Answered, LeftBehind
    <2>7. ASSUME NEW x \in RH
          PROVE  /\ rh'[x].live => rh'[x].held \/ (pc'[x[1]] \in RecvLocs /\ cur'[x[1]] = x)
                 /\ rh'[x].held => rh'[x].type # "RECV"
      <3>1. x[1] \in Nodes
        BY DEF RH
      <3> QED  BY <1>1, <2>0, <2>3, <3>1 DEF Answered
    <2> QED  BY <2>2, <2>6, <2>7 DEF Answered
  <1> QED  BY <1>4, <1>6, <1>7, <1>8, <1>9, <1>10, <1>11, <1>12, <1>13, <1>14, <1>15 DEF Good

----------------------------------------------------------------------------
(* Waiting for, testing, cancelling and freeing a request. *)

\* What a node may make of its own send handle.
AllowedSend(t, s, l) ==
  LET h == cur[t] IN
  /\ s \in SendHandle
  /\ l \in {"idle", "wait_sh", "sleep_sh", "enter_free_test_sh", "free_test_sh"}
  /\ s.type = sh[h].type /\ s.dest = sh[h].dest /\ s.tag = sh[h].tag /\ s.msg = sh[h].msg
  /\ s.held => s.type # "SEND"
  /\ s.stat \notin {"NONE", "CREATE"} \/ s.stat = sh[h].stat
  /\ s.stat \in PEND => \/ sh[h].stat \in PEND
                        \/ s.type = "PERSISTENT" /\ \A n \in Nodes : ~InQueue(sq[n], h)
  /\ l = "sleep_sh" => s.stat = "PEND_WAIT"
  /\ l \in {"wait_sh", "free_test_sh"} => s.stat \in Going
  /\ s.stat = "PEND_RELS" /\ s.type # "PERSISTENT" => l = "idle" /\ ~s.held
  /\ s.live => \/ s.held
               \/ s.type = "SEND" /\ l \in BlockingSend
               \/ s.stat = "PEND_RELS" /\ s.type # "PERSISTENT" /\ l = "idle"
AllowedRecv(t, s, l) ==
  LET r == cur[t] IN
  /\ s \in RecvHandle /\ l \in {"idle", "wait_rh", "sleep_rh", "free_test_rh"}
  /\ s.type = rh[r].type /\ s.src = rh[r].src /\ s.tag = rh[r].tag /\ s.msg = rh[r].msg
  /\ s.held => rh[r].held
  /\ s.stat \notin {"NONE", "CREATE"} \/ s.stat = rh[r].stat
  /\ s.stat \in PEND => rh[r].stat \in PEND
  /\ l = "sleep_rh" => s.stat = "PEND_WAIT"
  /\ l = "wait_rh" => s.stat \in Going
  /\ s.live => s.held \/ (s.type = "RECV" /\ l \in BlockingRecv)

\* The two lemmas on a node's own handle, with their conditions by name.
LEMMA OnSendAllowed ==
  ASSUME Good, NEW t \in Nodes, pc[t] \in SendLocs \ {"fill_rh"}, NEW s, NEW l,
         OnSend(t, s, l), AllowedSend(t, s, l)
  PROVE  Good'
  BY OnSendStep DEF AllowedSend

\* ... for a receive handle.
LEMMA OnRecvAllowed ==
  ASSUME Good, NEW t \in Nodes, pc[t] \in RecvLocs \ {"fill_sh"}, NEW s, NEW l,
         OnRecv(t, s, l), AllowedRecv(t, s, l)
  PROVE  Good'
  BY OnRecvStep DEF AllowedRecv

\* How a handle ends, and what a sender leaves behind.
LEMMA Endings ==
  ASSUME NEW s \in SendHandle
  PROVE  /\ SendOver(s) \in SendHandle /\ SendOver(s).stat = "FREE"
         /\ SendOver(s).type = s.type /\ SendOver(s).dest = s.dest /\ SendOver(s).tag = s.tag
         /\ SendOver(s).msg = s.msg
         /\ s.type = "PERSISTENT" => SendOver(s).live = s.live /\ SendOver(s).held = s.held
         /\ s.type # "PERSISTENT" => ~SendOver(s).live /\ ~SendOver(s).held
         /\ SendLeft(s) \in SendHandle /\ SendLeft(s).stat = "PEND_RELS"
         /\ SendLeft(s).type = s.type /\ SendLeft(s).dest = s.dest /\ SendLeft(s).tag = s.tag
         /\ SendLeft(s).msg = s.msg /\ SendLeft(s).live = s.live
         /\ SendLeft(s).held = (s.type = "PERSISTENT")
         /\ Freed(s) \in SendHandle /\ Freed(s).stat = s.stat
         /\ Freed(s).type = s.type /\ Freed(s).dest = s.dest /\ Freed(s).tag = s.tag
         /\ Freed(s).msg = s.msg /\ ~Freed(s).live /\ ~Freed(s).held
  <1>1. /\ SendOver(s) \in SendHandle /\ SendOver(s).stat = "FREE"
        /\ SendOver(s).type = s.type /\ SendOver(s).dest = s.dest /\ SendOver(s).tag = s.tag
        /\ SendOver(s).msg = s.msg
        /\ s.type = "PERSISTENT" => SendOver(s).live = s.live /\ SendOver(s).held = s.held
        /\ s.type # "PERSISTENT" => ~SendOver(s).live /\ ~SendOver(s).held
    <2>1. CASE s.type = "PERSISTENT"
      BY <2>1 DEF SendOver, SendHandle, Stats
    <2>2. CASE s.type # "PERSISTENT"
      BY <2>2 DEF SendOver, Freed, SendHandle, Stats
    <2> QED  BY <2>1, <2>2
  <1>2. /\ SendLeft(s) \in SendHandle /\ SendLeft(s).stat = "PEND_RELS"
        /\ SendLeft(s).type = s.type /\ SendLeft(s).dest = s.dest /\ SendLeft(s).tag = s.tag
        /\ SendLeft(s).msg = s.msg /\ SendLeft(s).live = s.live
        /\ SendLeft(s).held = (s.type = "PERSISTENT")
    BY DEF SendLeft, SendHandle, Stats, PEND
  <1>3. /\ Freed(s) \in SendHandle /\ Freed(s).stat = s.stat
        /\ Freed(s).type = s.type /\ Freed(s).dest = s.dest /\ Freed(s).tag = s.tag
        /\ Freed(s).msg = s.msg /\ ~Freed(s).live /\ ~Freed(s).held
    BY DEF Freed, SendHandle
  <1> QED  BY <1>1, <1>2, <1>3

\* The same for a receive.
LEMMA RecvEndings ==
  ASSUME NEW r \in RecvHandle
  PROVE  /\ RecvOver(r) \in RecvHandle /\ RecvOver(r).stat = "FREE"
         /\ RecvOver(r).type = r.type /\ RecvOver(r).src = r.src /\ RecvOver(r).tag = r.tag
         /\ RecvOver(r).msg = r.msg /\ ~RecvOver(r).live /\ ~RecvOver(r).held
         /\ Freed(r) \in RecvHandle /\ Freed(r).stat = r.stat
         /\ Freed(r).type = r.type /\ Freed(r).src = r.src /\ Freed(r).tag = r.tag
         /\ Freed(r).msg = r.msg /\ ~Freed(r).live /\ ~Freed(r).held
  <1>1. /\ RecvOver(r) \in RecvHandle /\ RecvOver(r).stat = "FREE"
        /\ RecvOver(r).type = r.type /\ RecvOver(r).src = r.src /\ RecvOver(r).tag = r.tag
        /\ RecvOver(r).msg = r.msg /\ ~RecvOver(r).live /\ ~RecvOver(r).held
    BY DEF RecvOver, Freed, RecvHandle, Stats, PEND
  <1>2. /\ Freed(r) \in RecvHandle /\ Freed(r).stat = r.stat
        /\ Freed(r).type = r.type /\ Freed(r).src = r.src /\ Freed(r).tag = r.tag
        /\ Freed(r).msg = r.msg /\ ~Freed(r).live /\ ~Freed(r).held
    BY DEF Freed, RecvHandle
  <1> QED  BY <1>1, <1>2

\* What a node knows of the handle it works on.
LEMMA OwnSend ==
  ASSUME Good, NEW t \in Nodes, pc[t] \in SendLocs
  PROVE  /\ sh[cur[t]] \in SendHandle /\ ~LeftBehind(cur[t])
         /\ sh[cur[t]].live =>
              sh[cur[t]].held \/ (sh[cur[t]].type = "SEND" /\ pc[t] \in BlockingSend)
         /\ sh[cur[t]].held => sh[cur[t]].type # "SEND"
  <1>1. cur[t] \in SH /\ cur[t][1] = t
    BY DEF Good, Working
  <1> QED  BY <1>1 DEF Good, Types, Answered

\* ... a receive.
LEMMA OwnRecv ==
  ASSUME Good, NEW t \in Nodes, pc[t] \in RecvLocs
  PROVE  /\ rh[cur[t]] \in RecvHandle
         /\ rh[cur[t]].live =>
              rh[cur[t]].held \/ (rh[cur[t]].type = "RECV" /\ pc[t] \in BlockingRecv)
  <1>1. cur[t] \in RH
    BY DEF Good, Working
  <1> QED  BY <1>1 DEF Good, Types, Answered

\* tmpi_intra_wait_sh, step by step.
LEMMA WaitSendSteps ==
  ASSUME Good, NEW t \in Nodes,
         \/ EnterWaitSend(t) \/ WaitSendMatched(t) \/ WaitSendSync(t) \/ WaitSendBuffered(t)
         \/ WaitSendNotReady(t) \/ WakeSendAgain(t) \/ WakeSend(t)
  PROVE  Good'
  <1>1. pc[t] \in {"enter_wait_sh", "wait_sh", "wake_sh"}
    BY DEF EnterWaitSend, WaitSendMatched, WaitSendSync, WaitSendBuffered, WaitSendNotReady,
           WakeSendAgain, WakeSend, AtSend
  <1>2. pc[t] \in SendLocs \ {"fill_rh"} /\ pc[t] \in SendLocs
    BY <1>1 DEF SendLocs
  <1> DEFINE h == cur[t]
             s == sh[h]
  <1>3. /\ s \in SendHandle /\ ~(s.stat = "PEND_RELS" /\ s.type # "PERSISTENT")
        /\ s.live => s.held \/ s.type = "SEND"
        /\ s.held => s.type # "SEND"
    BY <1>2, OwnSend DEF LeftBehind
  <1>4. /\ pc[t] = "wait_sh" => s.stat \in Going \/ (s.type = "PERSISTENT" /\ \A n \in Nodes : ~InQueue(sq[n], h))
        /\ pc[t] = "enter_wait_sh" /\ s.type = "SEND" => s.stat \in Going
    BY DEF Good, SendStates
  <1>5. /\ SendOver(s) \in SendHandle /\ SendOver(s).stat = "FREE"
        /\ SendOver(s).type = s.type /\ SendOver(s).dest = s.dest /\ SendOver(s).tag = s.tag
        /\ SendOver(s).msg = s.msg
        /\ s.type = "PERSISTENT" => SendOver(s).live = s.live /\ SendOver(s).held = s.held
        /\ s.type # "PERSISTENT" => ~SendOver(s).live /\ ~SendOver(s).held
        /\ SendLeft(s) \in SendHandle /\ SendLeft(s).stat = "PEND_RELS"
        /\ SendLeft(s).type = s.type /\ SendLeft(s).dest = s.dest /\ SendLeft(s).tag = s.tag
        /\ SendLeft(s).msg = s.msg /\ SendLeft(s).live = s.live
        /\ SendLeft(s).held = (s.type = "PERSISTENT")
    BY <1>3, Endings
  <1>6. AllowedSend(t, SendOver(s), "idle")
    BY <1>3, <1>5 DEF AllowedSend, PEND
  <1>7. CASE EnterWaitSend(t)
    <2> DEFINE l == IF s.stat \in Going THEN "wait_sh" ELSE "idle"
    <2>1. OnSend(t, s, l) /\ pc[t] = "enter_wait_sh"
      BY <1>7 DEF EnterWaitSend, Going
    <2>2. AllowedSend(t, s, l)
      BY <1>3, <1>4, <2>1 DEF AllowedSend, BlockingSend, Going
    <2> QED  BY <1>2, <2>1, <2>2, OnSendAllowed
  <1>8. CASE WaitSendMatched(t) \/ WaitSendNotReady(t) \/ WakeSend(t)
    <2>1. OnSend(t, SendOver(s), "idle")
      BY <1>8 DEF WaitSendMatched, WaitSendNotReady, WakeSend
    <2> QED  BY <1>2, <1>6, <2>1, OnSendAllowed
  <1>9. CASE WaitSendSync(t)
    <2> DEFINE w == [s EXCEPT !.stat = "PEND_WAIT"]
    <2>1. OnSend(t, w, "sleep_sh") /\ pc[t] = "wait_sh" /\ s.stat # "MATCH"
      BY <1>9 DEF WaitSendSync, AtSend
    <2>2. /\ w \in SendHandle /\ w.stat = "PEND_WAIT" /\ w.type = s.type /\ w.dest = s.dest
          /\ w.tag = s.tag /\ w.msg = s.msg /\ w.live = s.live /\ w.held = s.held
      BY <1>3 DEF SendHandle, Stats, PEND
    <2> HIDE DEF w
    <2>3. AllowedSend(t, w, "sleep_sh")
      BY <1>3, <1>4, <2>1, <2>2 DEF AllowedSend, BlockingSend, Going
    <2> QED  BY <1>2, <2>1, <2>3, OnSendAllowed
  <1>10. CASE WaitSendBuffered(t)
    <2>1. OnSend(t, SendLeft(s), "idle") /\ pc[t] = "wait_sh" /\ s.stat # "MATCH"
      BY <1>10 DEF WaitSendBuffered, AtSend
    <2>2. AllowedSend(t, SendLeft(s), "idle")
      BY <1>3, <1>4, <1>5, <2>1 DEF AllowedSend, Going
    <2> QED  BY <1>2, <2>1, <2>2, OnSendAllowed
  <1>11. CASE WakeSendAgain(t)
    <2>1. OnSend(t, s, "sleep_sh") /\ s.stat = "PEND_WAIT"
      BY <1>11 DEF WakeSendAgain
    <2>2. AllowedSend(t, s, "sleep_sh")
      BY <1>3, <2>1 DEF AllowedSend, BlockingSend
    <2> QED  BY <1>2, <2>1, <2>2, OnSendAllowed
  <1> QED  BY <1>7, <1>8, <1>9, <1>10, <1>11

\* tmpi_intra_wait_rh, step by step.
LEMMA WaitRecvSteps ==
  ASSUME Good, NEW t \in Nodes,
         \/ EnterWaitRecv(t) \/ WaitRecvMatched(t) \/ WaitRecvSleep(t)
         \/ WakeRecvAgain(t) \/ WakeRecv(t)
  PROVE  Good'
  <1>1. pc[t] \in {"enter_wait_rh", "wait_rh", "wake_rh"}
    BY DEF EnterWaitRecv, WaitRecvMatched, WaitRecvSleep, WakeRecvAgain, WakeRecv
  <1>2. pc[t] \in RecvLocs \ {"fill_sh"} /\ pc[t] \in RecvLocs
    BY <1>1 DEF RecvLocs
  <1> DEFINE s == rh[cur[t]]
  <1>3. s \in RecvHandle /\ (s.live => s.held \/ s.type = "RECV")
    BY <1>2, OwnRecv
  <1>4. /\ pc[t] = "wait_rh" => s.stat \in Going
        /\ pc[t] = "wake_rh" => s.stat \in {"PEND_WAIT", "MATCH"}
        /\ pc[t] = "enter_wait_rh" /\ s.type = "RECV" => s.stat \in Going
    BY DEF Good, RecvStates
  <1>5. AllowedRecv(t, RecvOver(s), "idle")
    BY <1>3, RecvEndings DEF AllowedRecv, PEND
  <1>6. CASE EnterWaitRecv(t)
    <2> DEFINE l == IF s.stat \in Going THEN "wait_rh" ELSE "idle"
    <2>1. OnRecv(t, s, l) /\ pc[t] = "enter_wait_rh"
      BY <1>6 DEF EnterWaitRecv, Going
    <2>2. AllowedRecv(t, s, l)
      BY <1>3, <1>4, <2>1 DEF AllowedRecv, BlockingRecv
    <2> QED  BY <1>2, <2>1, <2>2, OnRecvAllowed
  <1>7. CASE WaitRecvMatched(t) \/ WakeRecv(t)
    <2>1. OnRecv(t, RecvOver(s), "idle")
      BY <1>7 DEF WaitRecvMatched, WakeRecv
    <2> QED  BY <1>2, <1>5, <2>1, OnRecvAllowed
  <1>8. CASE WaitRecvSleep(t)
    <2> DEFINE w == [s EXCEPT !.stat = "PEND_WAIT"]
    <2>1. OnRecv(t, w, "sleep_rh") /\ pc[t] = "wait_rh" /\ s.stat # "MATCH"
      BY <1>8 DEF WaitRecvSleep
    <2>2. /\ w \in RecvHandle /\ w.stat = "PEND_WAIT" /\ w.type = s.type /\ w.src = s.src
          /\ w.tag = s.tag /\ w.msg = s.msg /\ w.live = s.live /\ w.held = s.held
      BY <1>3 DEF RecvHandle, Stats, PEND
    <2> HIDE DEF w
    <2>3. AllowedRecv(t, w, "sleep_rh")
      BY <1>3, <1>4, <2>1, <2>2 DEF AllowedRecv, BlockingRecv, Going
    <2> QED  BY <1>2, <2>1, <2>3, OnRecvAllowed
  <1>9. CASE WakeRecvAgain(t)
    <2>1. OnRecv(t, s, "sleep_rh") /\ pc[t] = "wake_rh" /\ s.stat # "MATCH"
      BY <1>9 DEF WakeRecvAgain
    <2>2. AllowedRecv(t, s, "sleep_rh")
      BY <1>3, <1>4, <2>1 DEF AllowedRecv, BlockingRecv
    <2> QED  BY <1>2, <2>1, <2>2, OnRecvAllowed
  <1> QED  BY <1>6, <1>7, <1>8, <1>9

\* tmpi_intra_test_*, tmpi_intra_cancel_* and tmpi_Request_free_*, step by step.
LEMMA RequestSteps ==
  ASSUME Good, NEW t \in Nodes, RequestStep(t)
  PROVE  Good'
  <1>1. CASE \E l \in {"test_sh", "free_test_sh"} : TestSendPending(t, l)
    BY <1>1, SmallStep
  <1>2. CASE \/ \E l \in {"test_sh", "free_test_sh"} : TestSendMatched(t, l) \/ TestSendBuffered(t, l)
             \/ CancelSend(t) \/ FreeSend(t) \/ FreeSendTest(t)
    <2>1. pc[t] \in {"test_sh", "free_test_sh", "cancel_sh", "free_sh", "enter_free_test_sh"}
      BY <1>2 DEF TestSendMatched, TestSendBuffered, CancelSend, FreeSend, FreeSendTest, AtSend
    <2>2. pc[t] \in SendLocs \ {"fill_rh"} /\ pc[t] \in SendLocs /\ pc[t] \notin BlockingSend
      BY <2>1 DEF SendLocs, BlockingSend
    <2> DEFINE h == cur[t]
               s == sh[h]
    <2>3. /\ s \in SendHandle /\ ~(s.stat = "PEND_RELS" /\ s.type # "PERSISTENT")
          /\ s.live => s.held
          /\ s.held => s.type # "SEND"
      BY <2>2, OwnSend DEF LeftBehind
    <2>4. pc[t] \in {"test_sh", "free_test_sh"} =>
            s.stat \in Going \/ (s.type = "PERSISTENT" /\ \A n \in Nodes : ~InQueue(sq[n], h))
      BY DEF Good, SendStates
    <2>5. /\ SendOver(s) \in SendHandle /\ SendOver(s).stat = "FREE"
          /\ SendOver(s).type = s.type /\ SendOver(s).dest = s.dest /\ SendOver(s).tag = s.tag
          /\ SendOver(s).msg = s.msg
          /\ s.type = "PERSISTENT" => SendOver(s).live = s.live /\ SendOver(s).held = s.held
          /\ s.type # "PERSISTENT" => ~SendOver(s).live /\ ~SendOver(s).held
          /\ SendLeft(s) \in SendHandle /\ SendLeft(s).stat = "PEND_RELS"
          /\ SendLeft(s).type = s.type /\ SendLeft(s).dest = s.dest /\ SendLeft(s).tag = s.tag
          /\ SendLeft(s).msg = s.msg /\ SendLeft(s).live = s.live
          /\ SendLeft(s).held = (s.type = "PERSISTENT")
          /\ Freed(s) \in SendHandle /\ Freed(s).stat = s.stat
          /\ Freed(s).type = s.type /\ Freed(s).dest = s.dest /\ Freed(s).tag = s.tag
          /\ Freed(s).msg = s.msg /\ ~Freed(s).live /\ ~Freed(s).held
      BY <2>3, Endings
    <2>6. AllowedSend(t, SendOver(s), "idle") /\ AllowedSend(t, Freed(s), "idle") /\ AllowedSend(t, s, "idle")
      BY <2>3, <2>5 DEF AllowedSend, PEND
    <2>7. AllowedSend(t, Freed(SendOver(s)), "idle")
      <3>1. /\ Freed(SendOver(s)) \in SendHandle /\ Freed(SendOver(s)).stat = SendOver(s).stat
            /\ Freed(SendOver(s)).type = SendOver(s).type /\ Freed(SendOver(s)).dest = SendOver(s).dest
            /\ Freed(SendOver(s)).tag = SendOver(s).tag /\ Freed(SendOver(s)).msg = SendOver(s).msg
            /\ ~Freed(SendOver(s)).live /\ ~Freed(SendOver(s)).held
        BY <2>5, Endings
      <3> QED  BY <2>5, <3>1 DEF AllowedSend, PEND
    <2>8. CASE \E l \in {"test_sh", "free_test_sh"} : TestSendMatched(t, l)
      <3>1. OnSend(t, SendOver(s), "idle") \/ OnSend(t, Freed(SendOver(s)), "idle")
        BY <2>8 DEF TestSendMatched, Tested
      <3> QED  BY <2>2, <2>6, <2>7, <3>1, OnSendAllowed
    <2>9. CASE \E l \in {"test_sh", "free_test_sh"} : TestSendBuffered(t, l)
      <3>1. s.stat # "MATCH" /\ pc[t] \in {"test_sh", "free_test_sh"}
        BY <2>9 DEF TestSendBuffered, AtSend
      <3>2. \/ OnSend(t, SendLeft(s), "idle")
            \/ s.type = "PERSISTENT" /\ OnSend(t, Freed(SendLeft(s)), "idle")
        BY <2>9 DEF TestSendBuffered, Tested
      <3>3. AllowedSend(t, SendLeft(s), "idle")
        BY <2>3, <2>4, <2>5, <3>1 DEF AllowedSend, Going
      <3>4. s.type = "PERSISTENT" => AllowedSend(t, Freed(SendLeft(s)), "idle")
        <4>1. /\ Freed(SendLeft(s)) \in SendHandle /\ Freed(SendLeft(s)).stat = SendLeft(s).stat
              /\ Freed(SendLeft(s)).type = SendLeft(s).type /\ Freed(SendLeft(s)).dest = SendLeft(s).dest
              /\ Freed(SendLeft(s)).tag = SendLeft(s).tag /\ Freed(SendLeft(s)).msg = SendLeft(s).msg
              /\ ~Freed(SendLeft(s)).live /\ ~Freed(SendLeft(s)).held
          BY <2>5, Endings
        <4> QED  BY <2>3, <2>4, <2>5, <3>1, <4>1 DEF AllowedSend, Going
      <3> QED  BY <2>2, <3>2, <3>3, <3>4, OnSendAllowed
    <2>10. CASE CancelSend(t)
      BY <2>2, <2>6, <2>10, OnSendAllowed DEF CancelSend
    <2>11. CASE FreeSend(t)
      <3>1. OnSend(t, Freed(s), "idle") \/ OnSend(t, s, "enter_free_test_sh")
        BY <2>11 DEF FreeSend
      <3>2. AllowedSend(t, s, "enter_free_test_sh")
        BY <2>3 DEF AllowedSend
      <3> QED  BY <2>2, <2>6, <3>1, <3>2, OnSendAllowed
    <2>12. CASE FreeSendTest(t)
      <3>1. \/ s.stat \in Going /\ OnSend(t, s, "free_test_sh")
            \/ OnSend(t, Freed(s), "idle") \/ OnSend(t, s, "idle")
        BY <2>12 DEF FreeSendTest, Going
      <3>2. s.stat \in Going => AllowedSend(t, s, "free_test_sh")
        BY <2>3 DEF AllowedSend
      <3> QED  BY <2>2, <2>6, <3>1, <3>2, OnSendAllowed
    <2> QED  BY <1>2, <2>8, <2>9, <2>10, <2>11, <2>12
  <1>3. CASE (\E l \in {"test_rh", "free_test_rh"} : TestRecv(t, l)) \/ CancelRecv(t) \/ FreeRecv(t)
    <2>1. pc[t] \in {"test_rh", "free_test_rh", "cancel_rh", "free_rh"}
      BY <1>3 DEF TestRecv, CancelRecv, FreeRecv
    <2>2. pc[t] \in RecvLocs \ {"fill_sh"} /\ pc[t] \in RecvLocs /\ pc[t] \notin BlockingRecv
      BY <2>1 DEF RecvLocs, BlockingRecv
    <2> DEFINE s == rh[cur[t]]
    <2>3. s \in RecvHandle /\ (s.live => s.held)
      BY <2>2, OwnRecv
    <2>4. AllowedRecv(t, RecvOver(s), "idle") /\ AllowedRecv(t, Freed(s), "idle")
      BY <2>3, RecvEndings DEF AllowedRecv, PEND
    <2>5. AllowedRecv(t, s, "idle") /\ AllowedRecv(t, s, "free_test_rh")
      BY <2>3 DEF AllowedRecv
    <2>6. \/ OnRecv(t, RecvOver(s), "idle") \/ OnRecv(t, Freed(s), "idle")
          \/ OnRecv(t, s, "idle") \/ OnRecv(t, s, "free_test_rh")
      BY <1>3 DEF TestRecv, CancelRecv, FreeRecv
    <2> QED  BY <2>2, <2>4, <2>5, <2>6, OnRecvAllowed
  <1> QED  BY <1>1, <1>2, <1>3 DEF RequestStep

\* The calls a program makes.
LEMMA CallSteps ==
  ASSUME Good, NEW t \in Nodes, ProgramStep(t)
  PROVE  Good'
  <1>1. CASE \E c \in SendCalls : (\E sys \in BOOLEAN : InitSend(t, c, sys)) \/ InitSendFails(t, c)
    BY <1>1, InitSendStep, SmallStep
  <1>2. CASE \E c \in RecvCalls : InitRecv(t, c)
    BY <1>2, InitRecvStep
  <1>3. CASE \E h \in SH : \/ CallStartSend(t, h) \/ CallWaitSend(t, h) \/ CallTestSend(t, h)
                           \/ CallCancelSend(t, h) \/ CallFreeSend(t, h)
    <2>1. PICK h \in SH : \/ CallStartSend(t, h) \/ CallWaitSend(t, h) \/ CallTestSend(t, h)
                          \/ CallCancelSend(t, h) \/ CallFreeSend(t, h)
      BY <1>3
    <2>2. h \in Handles
      BY BoundsAssumption DEF SH, Handles
    <2>3. PICK what \in {"start", "wait", "test", "cancel", "free"}, l \in {"start_sh", "enter_wait_sh", "test_sh", "cancel_sh", "free_sh"} :
            /\ CallOn(t, what, h, l) /\ h[1] = t /\ sh[h].held
            /\ l = "start_sh" => sh[h].stat \in {"CREATE", "FREE"}
            /\ l = "test_sh" => sh[h].stat \in Going
      BY <2>1 DEF CallStartSend, CallWaitSend, CallTestSend, CallCancelSend, CallFreeSend, Going
    <2>4. l \notin RecvLocs
      BY <2>3 DEF RecvLocs
    <2> QED  BY <2>2, <2>3, <2>4, CallOnStep
  <1>4. CASE \E r \in RH : \/ CallStartRecv(t, r) \/ CallWaitRecv(t, r) \/ CallTestRecv(t, r)
                           \/ CallCancelRecv(t, r) \/ CallFreeRecv(t, r)
    <2>1. PICK r \in RH : \/ CallStartRecv(t, r) \/ CallWaitRecv(t, r) \/ CallTestRecv(t, r)
                          \/ CallCancelRecv(t, r) \/ CallFreeRecv(t, r)
      BY <1>4
    <2>2. r \in Handles
      BY BoundsAssumption DEF RH, Handles
    <2>3. PICK what \in {"start", "wait", "test", "cancel", "free"}, l \in {"start_rh", "enter_wait_rh", "test_rh", "cancel_rh", "free_rh"} :
            /\ CallOn(t, what, r, l) /\ r[1] = t /\ rh[r].held
            /\ l = "start_rh" => rh[r].stat = "CREATE"
      BY <2>1 DEF CallStartRecv, CallWaitRecv, CallTestRecv, CallCancelRecv, CallFreeRecv
    <2>4. l \notin SendLocs
      BY <2>3 DEF SendLocs
    <2> QED  BY <2>2, <2>3, <2>4, CallOnStep
  <1> QED  BY <1>1, <1>2, <1>3, <1>4 DEF ProgramStep

----------------------------------------------------------------------------
(* The inductive invariant. *)

\* A freed handle is reached: the program stops where it is.
LEMMA CrashStep ==
  ASSUME Good, Crash
  PROVE  Stopped'
  <1>1. /\ pc' = [n \in Nodes |-> "crashed"]
        /\ UNCHANGED <<sh, rh, sq, rq, chlock, shlock, cur, found, nsh, nrh, spurious, sent, posted, matched>>
    BY DEF Crash, handles, queues, locks, counts, history
  <1>2. Types'
    BY <1>1 DEF Good, Types, Locations
  <1>3. NoMissed' /\ Matched'
    BY <1>1 DEF Good, NoMissed, Matched, ExactlyOnce
  <1> QED  BY <1>1, <1>2, <1>3 DEF Stopped

\* A step that changes nothing.
LEMMA GoodUnchanged ==
  ASSUME Good, UNCHANGED vars
  PROVE  Good'
  <1>1. UNCHANGED <<sh, rh, sq, rq, chlock, shlock, pc, cur, found, nsh, nrh, spurious, sent,
                    posted, matched>>
    BY DEF vars
  <1>2. Types' /\ NoFault' /\ Working'
    BY <1>1 DEF Good, Types, NoFault, Working
  <1>3. Filling' /\ Queues' /\ Unborn'
    BY <1>1 DEF Good, Filling, FillingRecv, FillingSend, Queues, Unborn
  <1>4. SendStates' /\ RecvStates' /\ NoMissed' /\ NoLostWakeup'
    BY <1>1 DEF Good, SendStates, RecvStates, NoMissed, NoLostWakeup
  <1>5. Numbers' /\ Matched'
    BY <1>1 DEF Good, Numbers, Matched, ExactlyOnce
  <1>6. Fresh'
    BY <1>1 DEF Good, Fresh, FreshSend, FreshRecv
  <1>7. Answered'
    BY <1>1 DEF Good, Answered, LeftBehind, SendBeingFilled
  <1> QED  BY <1>2, <1>3, <1>4, <1>5, <1>6, <1>7 DEF Good

\* Every other step keeps the program in order.
LEMMA GoodMove ==
  ASSUME Good, NEW t \in Nodes, LibraryStep(t) \/ ProgramStep(t) \/ SpuriousWakeup(t),
         ~(StartSendCrash(t) \/ FillRecvCrash(t) \/ StartRecvCrash(t) \/ FillSendCrash(t))
  PROVE  Good'
  <1>1. CASE StartStep(t)
    BY <1>1, StartSendUnmatchedStep, StartSendMatchedStep, FillRecvStep,
       StartRecvUnmatchedStep, StartRecvMatchedStep, FillSendStep DEF StartStep
  <1>2. CASE WaitStep(t)
    BY <1>2, WaitSendSteps, WaitRecvSteps DEF WaitStep
  <1> QED  BY <1>1, <1>2, RequestSteps, CallSteps, SmallStep DEF LibraryStep

\* Every step of a program that has not crashed, the crash included.
LEMMA GoodStep ==
  ASSUME Good, [Next]_vars
  PROVE  Inv'
  <1>1. CASE UNCHANGED vars
    BY <1>1, GoodUnchanged DEF Inv
  <1>2. ASSUME NEW t \in Nodes, LibraryStep(t) \/ ProgramStep(t) \/ SpuriousWakeup(t) PROVE Inv'
    <2>1. CASE StartSendCrash(t) \/ FillRecvCrash(t) \/ StartRecvCrash(t) \/ FillSendCrash(t)
      <3>1. Crash
        BY <2>1 DEF StartSendCrash, FillRecvCrash, StartRecvCrash, FillSendCrash
      <3> QED  BY <3>1, CrashStep DEF Inv
    <2>2. CASE ~(StartSendCrash(t) \/ FillRecvCrash(t) \/ StartRecvCrash(t) \/ FillSendCrash(t))
      BY <1>2, <2>2, GoodMove DEF Inv
    <2> QED  BY <2>1, <2>2
  <1> QED  BY <1>1, <1>2 DEF Next

\* Nothing happens after a crash.
LEMMA StoppedUnchanged ==
  ASSUME Stopped, [Next]_vars
  PROVE  UNCHANGED vars
  <1>1. ASSUME NEW t \in Nodes PROVE ~StartStep(t)
    BY DEF Stopped, StartStep, StartSendUnmatched, StartSendMatched, FillRecv, StartRecvUnmatched,
           StartRecvMatched, FillSend, StartSendCrash, FillRecvCrash, StartRecvCrash, FillSendCrash, Goto
  <1>2. ASSUME NEW t \in Nodes PROVE ~WaitStep(t)
    BY DEF Stopped, WaitStep, EnterWaitSend, WaitSendMatched, WaitSendSync, WaitSendBuffered,
           WaitSendNotReady, WakeSendAgain, WakeSend, EnterWaitRecv, WaitRecvMatched, WaitRecvSleep,
           WakeRecvAgain, WakeRecv, AtSend
  <1>3. ASSUME NEW t \in Nodes PROVE ~RequestStep(t)
    BY DEF Stopped, RequestStep, TestSendMatched, TestSendBuffered, TestSendPending, TestRecv,
           CancelSend, CancelRecv, FreeSend, FreeSendTest, FreeRecv, AtSend
  <1>4. ASSUME NEW t \in Nodes PROVE ~ProgramStep(t)
    BY DEF Stopped, ProgramStep, InitSend, InitSendFails, InitRecv, CallStartSend, CallWaitSend,
           CallTestSend, CallCancelSend, CallFreeSend, CallStartRecv, CallWaitRecv, CallTestRecv,
           CallCancelRecv, CallFreeRecv, CallOn, Goto
  <1>5. ASSUME NEW t \in Nodes PROVE ~SpuriousWakeup(t)
    BY DEF Stopped, SpuriousWakeup, Goto
  <1> QED  BY <1>1, <1>2, <1>3, <1>4, <1>5 DEF Next, LibraryStep

\* What holds after a crash goes on holding.
LEMMA StoppedStep ==
  ASSUME Stopped, [Next]_vars
  PROVE  Stopped'
  <1>1. UNCHANGED vars
    BY StoppedUnchanged
  <1> QED  BY <1>1 DEF vars, Stopped, NoMissed, Matched, ExactlyOnce, Types

\* tmpi_intra_init: no handles, empty queues, no locks.
LEMMA InitGood == Init => Good
  <1> SUFFICES ASSUME Init PROVE Good
    OBVIOUS
  <1>1. /\ sh = [h \in SH |-> NoSend] /\ rh = [r \in RH |-> NoRecv]
        /\ sq = [n \in Nodes |-> <<>>] /\ rq = [n \in Nodes |-> <<>>]
        /\ chlock = [n \in Nodes |-> NoNode] /\ shlock = [h \in SH |-> NoNode]
        /\ pc = [n \in Nodes |-> "idle"] /\ cur = [n \in Nodes |-> <<n, 0>>]
        /\ found = [n \in Nodes |-> <<n, 0>>]
        /\ nsh = [n \in Nodes |-> 0] /\ nrh = [n \in Nodes |-> 0] /\ spurious = 0
        /\ sent = [n \in Nodes |-> <<>>] /\ posted = [n \in Nodes |-> <<>>] /\ matched = {}
    BY DEF Init, tmpi_intra_init
  <1>2. NoSend \in SendHandle /\ NoRecv \in RecvHandle
    BY DEF NoSend, NoRecv, SendHandle, RecvHandle, Stats, PEND, SendTypes, RecvTypes, Modes, Tags
  <1>3. Types
    BY <1>1, <1>2 DEF Types, Locations, Handles
  <1>4. \A n \in Nodes : pc[n] = "idle" /\ pc[n] \notin SendLocs /\ pc[n] \notin RecvLocs
    BY <1>1 DEF SendLocs, RecvLocs
  <1>5. \A n \in Nodes : \A x : ~InQueue(sq[n], x) /\ ~InQueue(rq[n], x)
    BY <1>1 DEF InQueue
  <1>6. \A n \in Nodes : NoDup(sq[n]) /\ NoDup(rq[n])
    <2>1. \A n \in Nodes : sq[n] = << >> /\ rq[n] = << >>
      BY <1>1
    <2>2. NoDup(<< >>)
      BY DEF NoDup
    <2> QED  BY <2>1, <2>2
  <1>7. \A h \in SH : sh[h] = NoSend /\ h[1] \in Nodes
    BY <1>1 DEF SH
  <1>8. \A r \in RH : rh[r] = NoRecv /\ r[1] \in Nodes
    BY <1>1 DEF RH
  <1>9. NoFault /\ Working /\ Filling /\ SendStates /\ RecvStates /\ NoLostWakeup
    BY <1>4 DEF NoFault, Working, Filling, SendStates, RecvStates, NoLostWakeup, SendLocs, RecvLocs
  <1>10. Queues /\ NoMissed
    BY <1>5, <1>6 DEF Queues, NoMissed
  <1>11. Unborn
    BY <1>7, <1>8 DEF Unborn
  <1>12. Numbers
    <2>1. \A n \in Nodes : Len(sent[n]) = 0 /\ Len(posted[n]) = 0
      BY <1>1
    <2>2. (\A h \in SH : sh[h].msg = 0) /\ (\A r \in RH : rh[r].msg = 0)
      BY <1>7, <1>8 DEF NoSend, NoRecv
    <2> QED  BY <1>7, <1>8, <2>1, <2>2 DEF Numbers
  <1>13. Fresh
    BY <1>4, <1>5 DEF Fresh
  <1>14. Matched
    BY <1>1 DEF Matched, ExactlyOnce
  <1>15. Answered
    <2>1. \A h \in SH : sh[h].stat = "NONE" /\ ~sh[h].live /\ ~sh[h].held
      BY <1>7 DEF NoSend
    <2>2. \A r \in RH : ~rh[r].live /\ ~rh[r].held
      BY <1>8 DEF NoRecv
    <2> QED  BY <1>4, <2>1, <2>2 DEF Answered, LeftBehind, PEND
  <1> QED  BY <1>3, <1>9, <1>10, <1>11, <1>12, <1>13, <1>14, <1>15 DEF Good

\* Until a freed handle is reached through a queue (intra_sr.c:540, 603) the invariant
\* holds, and from then on nothing happens: on any number of nodes, for any calls.
THEOREM Invariance == Safe => []Inv
  <1>1. Init => Inv
    BY InitGood DEF Inv
  <1>2. Inv /\ [Next]_vars => Inv'
    BY GoodStep, StoppedStep DEF Inv
  <1> QED  BY <1>1, <1>2, PTL DEF Safe

----------------------------------------------------------------------------
(* What it says of the programs. *)

\* What the invariant says of requests.
LEMMA InvIsSound == Inv => RequestsSound
  <1> SUFFICES ASSUME Inv PROVE RequestsSound
    OBVIOUS
  <1>1. NoMissed /\ Matched /\ Types
    BY DEF Inv, Good, Stopped
  <1>2. NoMissedMatch
    <2> SUFFICES ASSUME NEW n \in Nodes, NEW i \in 1..Len(sq[n]), NEW j \in 1..Len(rq[n]),
                        sh[sq[n][i]].stat \in PEND, rh[rq[n][j]].stat \in PEND
                 PROVE  ~Fits(rh[rq[n][j]], sq[n][i][1], sh[sq[n][i]].tag)
      BY DEF NoMissedMatch
    <2>1. sq[n][i] \in SH /\ rq[n][j] \in RH
      BY <1>1, ElementOfSeq DEF Types
    <2>2. InQueue(sq[n], sq[n][i]) /\ InQueue(rq[n], rq[n][j])
      BY DEF InQueue
    <2> QED  BY <1>1, <2>1, <2>2 DEF NoMissed
  <1>3. ExactlyOnce
    BY <1>1 DEF Matched
  <1>4. NoLostWakeup
    BY DEF Inv, Good, Stopped, NoLostWakeup
  <1>5. NoLeak
    <2>1. CASE Good
      BY <2>1 DEF Good, Answered, LeftBehind, NoLeak, PEND
    <2>2. CASE Stopped
      BY <2>2 DEF Stopped, NoLeak, NoFault, SH, RH
    <2> QED  BY <2>1, <2>2 DEF Inv
  <1> QED  BY <1>2, <1>3, <1>4, <1>5 DEF RequestsSound

\* Whatever requests the programs make, test, cancel, free and start again, on any number
\* of nodes: a send and a receive in a channel never miss each other, a message is
\* received once and by a receive that asked for it, whoever ends a wait wakes the sleeper
\* up, and no handle is lost (intra_sr.c:521-800).
THEOREM RequestsAreSound == Safe => []RequestsSound
  BY Invariance, InvIsSound, PTL

\* The two parts of it that the order of messages rests on.
THEOREM NoMatchIsMissed == Safe => []NoMissedMatch
  <1>1. Inv => NoMissedMatch
    BY InvIsSound DEF RequestsSound
  <1> QED  BY <1>1, Invariance, PTL

\* A message goes to one receive, a receive gets one message, and one it asked for: the
\* handle that intra_sr.c:540 and 603 take out of a queue is in no queue any more.
THEOREM ReceivedExactlyOnce == Safe => []ExactlyOnce
  <1>1. Inv => ExactlyOnce
    BY InvIsSound DEF RequestsSound
  <1> QED  BY <1>1, Invariance, PTL

----------------------------------------------------------------------------
(* Programs that leave their requests alone. *)

\* The programs in question neither cancel nor free a request, do not use the ready mode
\* and make persistent requests for synchronous sends only: in the other cases the code
\* loses track of what it has queued.
Careful ==
  /\ {"cancel", "free"} \cap RequestCalls = {}
  /\ \A c \in SendCalls : c.mode # "READY" /\ (c.type = "PERSISTENT" => c.mode = "SYNC")

\* Of every send handle: a message is left behind in a system buffer or has no length.
Kept(s) ==
  /\ s.mode # "READY" /\ (s.type = "PERSISTENT" => s.mode = "SYNC")
  /\ s.mode = "SYNC" => ~s.sys_buf
  /\ s.mode = "BUFFERED" /\ s.len # 0 => s.sys_buf
  /\ s.stat = "PEND_RELS" => Buffered(s) /\ (s.len # 0 => s.curdata = "sys")
  /\ s.held \/ s.stat \in PEND => s.live

\* A handle is pending exactly while it is queued or being filled.
Pending ==
  /\ \A h \in SH : sh[h].stat \in PEND => InQueue(sq[sh[h].dest], h) \/ SendBeingFilled(h)
  /\ \A r \in RH : rh[r].stat \in PEND => InQueue(rq[r[1]], r) \/ RecvBeingFilled(r)
  /\ \A n \in Nodes : /\ \A h \in SH : InQueue(sq[n], h) => sh[h].stat \in PEND
                      /\ \A r \in RH : InQueue(rq[n], r) => rh[r].stat \in PEND
  /\ \A t \in Nodes : /\ pc[t] = "fill_sh" => sh[found[t]].stat \in PEND
                      /\ pc[t] = "fill_rh" => rh[found[t]].stat \in PEND

CarefulLocs == {"start_sh", "fill_rh", "enter_wait_sh", "wait_sh", "sleep_sh", "wake_sh", "test_sh"}
               \cup {"start_rh", "fill_sh", "enter_wait_rh", "wait_rh", "sleep_rh", "wake_rh", "test_rh"}
               \cup {"idle"}

\* A node works on a live handle, and in a state that only its match changes.
Ongoing ==
  \A t \in Nodes :
    /\ pc[t] \in CarefulLocs
    /\ pc[t] \in SendLocs => sh[cur[t]].live
    /\ pc[t] \in RecvLocs => rh[cur[t]].live
    /\ pc[t] \in {"wait_sh", "test_sh"} => sh[cur[t]].stat \in Going
    /\ pc[t] = "wake_sh" => sh[cur[t]].stat \in {"PEND_WAIT", "MATCH"}

Plain ==
  /\ \A h \in SH : Kept(sh[h])
  /\ \A r \in RH : rh[r].held \/ rh[r].stat \in PEND => rh[r].live
  /\ Pending /\ Ongoing /\ DataIntact

\* A step of node t that moves nothing between the queues and the fills.
LEMMA PlainMove ==
  ASSUME Good, Plain, NEW t \in Nodes, UNCHANGED <<sq, rq, found, matched>>,
         pc[t] \notin {"fill_sh", "fill_rh"}, pc'[t] \in CarefulLocs \ {"fill_sh", "fill_rh"},
         \A u \in Nodes : u # t => pc'[u] = pc[u] /\ cur'[u] = cur[u],
         \A h \in SH : /\ sh'[h] # sh[h] => h[1] = t /\ Kept(sh'[h])
                       /\ sh'[h].stat \in PEND <=> sh[h].stat \in PEND
                       /\ sh'[h].stat \in PEND => sh'[h].dest = sh[h].dest,
         \A r \in RH : /\ rh'[r] # rh[r] => r[1] = t
                       /\ rh'[r].held \/ rh'[r].stat \in PEND => rh'[r].live
                       /\ rh'[r].stat \in PEND <=> rh[r].stat \in PEND,
         pc'[t] \in SendLocs => sh'[cur'[t]].live,
         pc'[t] \in RecvLocs => rh'[cur'[t]].live,
         pc'[t] \in {"wait_sh", "test_sh"} => sh'[cur'[t]].stat \in Going,
         pc'[t] = "wake_sh" => sh'[cur'[t]].stat \in {"PEND_WAIT", "MATCH"}
  PROVE  Plain'
  <1>1. \A h \in SH : Kept(sh'[h])
    BY DEF Plain
  <1>2. \A u \in Nodes : /\ pc'[u] = "fill_sh" <=> pc[u] = "fill_sh"
                         /\ pc'[u] = "fill_rh" <=> pc[u] = "fill_rh"
    OBVIOUS
  <1>3. Pending'
    <2>1. \A h \in SH : SendBeingFilled(h)' <=> SendBeingFilled(h)
      BY <1>2 DEF SendBeingFilled
    <2>2. \A r \in RH : RecvBeingFilled(r)' <=> RecvBeingFilled(r)
      BY <1>2 DEF RecvBeingFilled
    <2>3. \A u \in Nodes : /\ pc[u] = "fill_sh" => found[u] \in SH
                           /\ pc[u] = "fill_rh" => found[u] \in RH
      BY DEF Good, Filling, FillingSend, FillingRecv
    <2>4. Pending
      BY DEF Plain
    <2>5. \A u \in Nodes : /\ pc'[u] = "fill_sh" => sh'[found[u]].stat \in PEND
                           /\ pc'[u] = "fill_rh" => rh'[found[u]].stat \in PEND
      BY <1>2, <2>3, <2>4 DEF Pending
    <2>6. \A h \in SH : sh'[h].stat \in PEND => InQueue(sq[sh'[h].dest], h) \/ SendBeingFilled(h)'
      BY <2>1, <2>4 DEF Pending
    <2>7. \A r \in RH : rh'[r].stat \in PEND => InQueue(rq[r[1]], r) \/ RecvBeingFilled(r)'
      BY <2>2, <2>4 DEF Pending
    <2>8. \A n \in Nodes : /\ \A h \in SH : InQueue(sq[n], h) => sh'[h].stat \in PEND
                           /\ \A r \in RH : InQueue(rq[n], r) => rh'[r].stat \in PEND
      BY <2>4 DEF Pending
    <2> QED  BY <2>5, <2>6, <2>7, <2>8 DEF Pending
  <1>4. Ongoing'
    <2> SUFFICES ASSUME NEW u \in Nodes, u # t
                 PROVE  /\ pc[u] \in CarefulLocs
                        /\ pc[u] \in SendLocs => sh'[cur[u]].live
                        /\ pc[u] \in RecvLocs => rh'[cur[u]].live
                        /\ pc[u] \in {"wait_sh", "test_sh"} => sh'[cur[u]].stat \in Going
                        /\ pc[u] = "wake_sh" => sh'[cur[u]].stat \in {"PEND_WAIT", "MATCH"}
      BY DEF Ongoing
    <2>1. Ongoing /\ Working
      BY DEF Plain, Good
    <2>2. pc[u] \in SendLocs => sh'[cur[u]] = sh[cur[u]]
      BY <2>1 DEF Working
    <2>3. pc[u] \in RecvLocs => rh'[cur[u]] = rh[cur[u]]
      BY <2>1 DEF Working
    <2>4. pc[u] \in {"wait_sh", "test_sh", "wake_sh"} => pc[u] \in SendLocs
      BY DEF SendLocs
    <2> QED  BY <2>1, <2>2, <2>3, <2>4 DEF Ongoing
  <1>5. DataIntact'
    BY DEF Plain, DataIntact
  <1> QED  BY <1>1, <1>3, <1>4, <1>5 DEF Plain

\* What ends, sleeps or leaves behind a send keeps it in order.
LEMMA KeptEndings ==
  ASSUME NEW s \in SendHandle, Kept(s)
  PROVE  /\ Kept(SendOver(s))
         /\ s.live /\ Buffered(s) => Kept(SendLeft(s))
         /\ s.live => Kept([s EXCEPT !.stat = "PEND_WAIT"])
  <1>1. Kept(SendOver(s))
    <2>1. CASE s.type = "PERSISTENT"
      BY <2>1 DEF SendOver, Kept, SendHandle, PEND, Buffered
    <2>2. CASE s.type # "PERSISTENT"
      BY <2>2 DEF SendOver, Freed, Kept, SendHandle, PEND, Buffered
    <2> QED  BY <2>1, <2>2
  <1>2. ASSUME s.live, Buffered(s) PROVE Kept(SendLeft(s))
    <2>1. s.len # 0 => s.sys_buf
      BY <1>2 DEF Kept, Buffered
    <2>2. /\ SendLeft(s).mode = s.mode /\ SendLeft(s).type = s.type /\ SendLeft(s).len = s.len
          /\ SendLeft(s).sys_buf = s.sys_buf /\ SendLeft(s).live = s.live
          /\ SendLeft(s).stat = "PEND_RELS" /\ (s.sys_buf => SendLeft(s).curdata = "sys")
      BY DEF SendLeft, SendHandle
    <2> QED  BY <1>2, <2>1, <2>2 DEF Kept, Buffered
  <1>3. ASSUME s.live PROVE Kept([s EXCEPT !.stat = "PEND_WAIT"])
    BY <1>3 DEF Kept, SendHandle, Buffered
  <1> QED  BY <1>1, <1>2, <1>3

\* A careful program's step on its own send handle ...
LEMMA PlainOnSend ==
  ASSUME Good, Plain, NEW t \in Nodes, pc[t] \in SendLocs \ {"fill_rh"}, NEW s,
         NEW l \in {"idle", "wait_sh", "sleep_sh"}, OnSend(t, s, l), Kept(s),
         s.dest = sh[cur[t]].dest, s.stat \in PEND <=> sh[cur[t]].stat \in PEND,
         l # "idle" => s.live, l = "wait_sh" => s.stat \in Going
  PROVE  Plain'
  <1>1. PICK g \in SH : g = cur[t] /\ g[1] = t
    BY DEF Good, Working
  <1>2. /\ sh' = [sh EXCEPT ![g] = s] /\ pc' = [pc EXCEPT ![t] = l]
        /\ UNCHANGED <<rh, sq, rq, cur, found, matched>>
    BY <1>1 DEF OnSend, queues, history
  <1>3. sh \in [SH -> SendHandle] /\ pc \in [Nodes -> Locations]
    BY DEF Good, Types
  <1>4. sh'[g] = s /\ (\A h \in SH : h # g => sh'[h] = sh[h]) /\ pc'[t] = l
        /\ \A u \in Nodes : u # t => pc'[u] = pc[u]
    BY <1>2, <1>3
  <1>5. \A h \in SH : /\ sh'[h] # sh[h] => h[1] = t /\ Kept(sh'[h])
                      /\ sh'[h].stat \in PEND <=> sh[h].stat \in PEND
                      /\ sh'[h].stat \in PEND => sh'[h].dest = sh[h].dest
    BY <1>1, <1>4
  <1>6. \A r \in RH : rh[r].held \/ rh[r].stat \in PEND => rh[r].live
    BY DEF Plain
  <1>7. l \in CarefulLocs \ {"fill_sh", "fill_rh"} /\ l \notin RecvLocs /\ l \notin {"test_sh", "wake_sh"}
    BY DEF CarefulLocs, RecvLocs
  <1>8. l \in SendLocs => l # "idle"
    BY DEF SendLocs
  <1>9. pc[t] \notin {"fill_sh", "fill_rh"}
    BY DEF SendLocs
  <1> QED  BY <1>1, <1>2, <1>4, <1>5, <1>6, <1>7, <1>8, <1>9, PlainMove

\* ... and on its own receive handle.
LEMMA PlainOnRecv ==
  ASSUME Good, Plain, NEW t \in Nodes, pc[t] \in RecvLocs \ {"fill_sh"}, NEW s,
         NEW l \in {"idle", "wait_rh", "sleep_rh"}, OnRecv(t, s, l),
         s.held \/ s.stat \in PEND => s.live,
         s.stat \in PEND <=> rh[cur[t]].stat \in PEND, l # "idle" => s.live
  PROVE  Plain'
  <1>1. PICK g \in RH : g = cur[t] /\ g[1] = t
    BY DEF Good, Working
  <1>2. /\ rh' = [rh EXCEPT ![g] = s] /\ pc' = [pc EXCEPT ![t] = l]
        /\ UNCHANGED <<sh, sq, rq, cur, found, matched>>
    BY <1>1 DEF OnRecv, queues, history
  <1>3. rh \in [RH -> RecvHandle] /\ pc \in [Nodes -> Locations]
    BY DEF Good, Types
  <1>4. rh'[g] = s /\ (\A r \in RH : r # g => rh'[r] = rh[r]) /\ pc'[t] = l
        /\ \A u \in Nodes : u # t => pc'[u] = pc[u]
    BY <1>2, <1>3
  <1>5. \A r \in RH : rh[r].held \/ rh[r].stat \in PEND => rh[r].live
    BY DEF Plain
  <1>6. \A r \in RH : /\ rh'[r] # rh[r] => r[1] = t
                      /\ rh'[r].held \/ rh'[r].stat \in PEND => rh'[r].live
                      /\ rh'[r].stat \in PEND <=> rh[r].stat \in PEND
    BY <1>1, <1>4, <1>5
  <1>7. l \in CarefulLocs \ {"fill_sh", "fill_rh"} /\ l \notin SendLocs
        /\ l \notin {"wait_sh", "test_sh", "wake_sh"}
    BY DEF CarefulLocs, SendLocs
  <1>8. l \in RecvLocs => l # "idle"
    BY DEF RecvLocs
  <1>9. pc[t] \notin {"fill_sh", "fill_rh"}
    BY DEF RecvLocs
  <1> QED  BY <1>1, <1>2, <1>4, <1>6, <1>7, <1>8, <1>9, PlainMove

\* A step of node t that changes where it is and what it works on, and no handle.
LEMMA PlainGoto ==
  ASSUME Good, Plain, NEW t \in Nodes, UNCHANGED <<sh, rh, sq, rq, found, matched>>,
         pc[t] \notin {"fill_sh", "fill_rh"}, pc'[t] \in CarefulLocs \ {"fill_sh", "fill_rh"},
         \A u \in Nodes : u # t => pc'[u] = pc[u] /\ cur'[u] = cur[u],
         pc'[t] \in SendLocs => sh[cur'[t]].live,
         pc'[t] \in RecvLocs => rh[cur'[t]].live,
         pc'[t] \in {"wait_sh", "test_sh"} => sh[cur'[t]].stat \in Going,
         pc'[t] = "wake_sh" => sh[cur'[t]].stat \in {"PEND_WAIT", "MATCH"}
  PROVE  Plain'
  <1>1. \A r \in RH : rh[r].held \/ rh[r].stat \in PEND => rh[r].live
    BY DEF Plain
  <1> QED  BY <1>1, PlainMove

\* Waiting is careful.
LEMMA PlainWaits ==
  ASSUME Good, Plain, NEW t \in Nodes, WaitStep(t)
  PROVE  Plain'
  <1>1. \A h \in SH : sh[h] \in SendHandle /\ Kept(sh[h])
    BY DEF Good, Types, Plain
  <1>2. \A r \in RH : rh[r] \in RecvHandle /\ (rh[r].held \/ rh[r].stat \in PEND => rh[r].live)
    BY DEF Good, Types, Plain
  <1>3. CASE \/ EnterWaitSend(t) \/ WaitSendMatched(t) \/ WaitSendSync(t) \/ WaitSendBuffered(t)
             \/ WaitSendNotReady(t) \/ WakeSendAgain(t) \/ WakeSend(t)
    <2>1. /\ pc[t] \in SendLocs \ {"fill_rh"}
          /\ WaitSendMatched(t) \/ WaitSendSync(t) \/ WaitSendBuffered(t) \/ WaitSendNotReady(t) =>
               pc[t] = "wait_sh"
          /\ WakeSendAgain(t) \/ WakeSend(t) => pc[t] = "wake_sh"
      BY <1>3 DEF EnterWaitSend, WaitSendMatched, WaitSendSync, WaitSendBuffered,
                  WaitSendNotReady, WakeSendAgain, WakeSend, AtSend, SendLocs
    <2>2. PICK s : s = sh[cur[t]]
      OBVIOUS
    <2>3. s \in SendHandle /\ Kept(s) /\ s.live
      BY <1>1, <2>1, <2>2 DEF Good, Working, Plain, Ongoing
    <2>4. pc[t] = "wait_sh" => s.stat \in Going
      BY <2>2 DEF Plain, Ongoing
    <2>5. CASE EnterWaitSend(t)
      <3>1. OnSend(t, s, IF s.stat \in PEND \cup {"MATCH"} THEN "wait_sh" ELSE "idle")
        BY <2>2, <2>5 DEF EnterWaitSend
      <3> QED  BY <2>1, <2>2, <2>3, <3>1, PlainOnSend DEF Going
    <2>6. CASE WaitSendMatched(t) \/ WaitSendNotReady(t) \/ WakeSend(t)
      <3>1. s.mode # "READY"
        BY <2>3 DEF Kept
      <3>2. OnSend(t, SendOver(s), "idle")
        BY <2>2, <2>6 DEF WaitSendMatched, WaitSendNotReady, WakeSend
      <3>3. s.stat \notin PEND
        BY <2>1, <2>2, <2>6, <3>1 DEF Plain, Ongoing, WaitSendMatched, WaitSendNotReady, WakeSend, PEND
      <3>4. SendOver(s).stat \notin PEND /\ SendOver(s).dest = s.dest
        BY <2>3, Endings DEF PEND
      <3> QED  BY <2>1, <2>2, <2>3, <3>2, <3>3, <3>4, KeptEndings, PlainOnSend
    <2>7. CASE WaitSendSync(t)
      <3>1. OnSend(t, [s EXCEPT !.stat = "PEND_WAIT"], "sleep_sh") /\ s.stat # "MATCH"
        BY <2>2, <2>7 DEF WaitSendSync
      <3>2. s.stat \in PEND
        BY <2>1, <2>4, <2>7, <3>1 DEF Going
      <3>3. /\ [s EXCEPT !.stat = "PEND_WAIT"].stat \in PEND
            /\ [s EXCEPT !.stat = "PEND_WAIT"].dest = s.dest /\ [s EXCEPT !.stat = "PEND_WAIT"].live
        BY <2>3 DEF SendHandle, PEND
      <3> QED  BY <2>1, <2>2, <2>3, <3>1, <3>2, <3>3, KeptEndings, PlainOnSend
    <2>8. CASE WaitSendBuffered(t)
      <3>1. OnSend(t, SendLeft(s), "idle") /\ s.stat # "MATCH" /\ Buffered(s)
        BY <2>2, <2>8 DEF WaitSendBuffered
      <3>2. s.stat \in PEND
        BY <2>1, <2>4, <2>8, <3>1 DEF Going
      <3>3. SendLeft(s).stat \in PEND /\ SendLeft(s).dest = s.dest
        BY <2>3, Endings DEF PEND
      <3> QED  BY <2>1, <2>2, <2>3, <3>1, <3>2, <3>3, KeptEndings, PlainOnSend
    <2>9. CASE WakeSendAgain(t)
      BY <2>1, <2>2, <2>3, <2>9, PlainOnSend DEF WakeSendAgain
    <2> QED  BY <1>3, <2>5, <2>6, <2>7, <2>8, <2>9
  <1>4. CASE \/ EnterWaitRecv(t) \/ WaitRecvMatched(t) \/ WaitRecvSleep(t)
             \/ WakeRecvAgain(t) \/ WakeRecv(t)
    <2>1. pc[t] \in RecvLocs \ {"fill_sh"}
      BY <1>4 DEF EnterWaitRecv, WaitRecvMatched, WaitRecvSleep, WakeRecvAgain, WakeRecv, RecvLocs
    <2>2. PICK s : s = rh[cur[t]]
      OBVIOUS
    <2>3. s \in RecvHandle /\ s.live /\ (s.held \/ s.stat \in PEND => s.live)
      BY <1>2, <2>1, <2>2 DEF Good, Working, Plain, Ongoing
    <2>4. CASE EnterWaitRecv(t) \/ WakeRecvAgain(t)
      <3>1. PICK l \in {"idle", "wait_rh", "sleep_rh"} : OnRecv(t, s, l)
        BY <2>2, <2>4 DEF EnterWaitRecv, WakeRecvAgain
      <3> QED  BY <2>1, <2>2, <2>3, <3>1, PlainOnRecv
    <2>5. CASE WaitRecvMatched(t) \/ WakeRecv(t)
      <3>1. OnRecv(t, RecvOver(s), "idle") /\ s.stat = "MATCH"
        BY <2>2, <2>5 DEF WaitRecvMatched, WakeRecv
      <3>2. RecvOver(s).stat \notin PEND /\ ~RecvOver(s).held /\ s.stat \notin PEND
        BY <2>3, <3>1, RecvEndings DEF PEND
      <3> QED  BY <2>1, <2>2, <2>3, <3>1, <3>2, PlainOnRecv
    <2>6. CASE WaitRecvSleep(t)
      <3>1. pc[t] = "wait_rh" /\ OnRecv(t, [s EXCEPT !.stat = "PEND_WAIT"], "sleep_rh") /\ s.stat # "MATCH"
        BY <2>2, <2>6 DEF WaitRecvSleep
      <3>2. s.stat \in PEND
        BY <2>2, <3>1 DEF Good, RecvStates, Going
      <3>3. [s EXCEPT !.stat = "PEND_WAIT"].stat \in PEND /\ [s EXCEPT !.stat = "PEND_WAIT"].live
        BY <2>3 DEF RecvHandle, PEND
      <3> QED  BY <2>1, <2>2, <2>3, <3>1, <3>2, <3>3, PlainOnRecv
    <2> QED  BY <1>4, <2>4, <2>5, <2>6
  <1> QED  BY <1>3, <1>4 DEF WaitStep

\* Of the calls on requests careful programs only test.
LEMMA PlainRequests ==
  ASSUME Good, Plain, NEW t \in Nodes, RequestStep(t)
  PROVE  Plain'
  <1>1. pc[t] \in CarefulLocs
    BY DEF Plain, Ongoing
  <1>2. pc[t] \notin {"free_test_sh", "free_test_rh", "cancel_sh", "cancel_rh", "free_sh", "free_rh",
                      "enter_free_test_sh"}
    BY <1>1 DEF CarefulLocs
  <1>3. TestSendMatched(t, "test_sh") \/ TestSendBuffered(t, "test_sh") \/ TestSendPending(t, "test_sh")
        \/ TestRecv(t, "test_rh")
    BY <1>2 DEF RequestStep, TestSendMatched, TestSendBuffered, TestSendPending, TestRecv,
                CancelSend, CancelRecv, FreeSend, FreeSendTest, FreeRecv, AtSend
  <1>4. CASE TestSendMatched(t, "test_sh") \/ TestSendBuffered(t, "test_sh") \/ TestSendPending(t, "test_sh")
    <2>1. pc[t] = "test_sh" /\ pc[t] \in SendLocs \ {"fill_rh"}
      BY <1>4 DEF TestSendMatched, TestSendBuffered, TestSendPending, AtSend, SendLocs
    <2>2. PICK s : s = sh[cur[t]]
      OBVIOUS
    <2>3. s \in SendHandle /\ Kept(s) /\ s.live /\ s.stat \in Going
      BY <2>1, <2>2 DEF Good, Types, Working, Plain, Ongoing
    <2>4. CASE TestSendMatched(t, "test_sh")
      <3>1. OnSend(t, SendOver(s), "idle") /\ s.stat = "MATCH"
        BY <2>2, <2>4 DEF TestSendMatched, Tested
      <3>2. SendOver(s).stat \notin PEND /\ SendOver(s).dest = s.dest /\ s.stat \notin PEND
        BY <2>3, <3>1, Endings DEF PEND
      <3> QED  BY <2>1, <2>2, <2>3, <3>1, <3>2, KeptEndings, PlainOnSend
    <2>5. CASE TestSendBuffered(t, "test_sh")
      <3>1. OnSend(t, SendLeft(s), "idle") /\ s.stat # "MATCH" /\ Buffered(s)
        BY <2>2, <2>5 DEF TestSendBuffered, Tested
      <3>2. s.stat \in PEND
        BY <2>3, <3>1 DEF Going
      <3>3. SendLeft(s).stat \in PEND /\ SendLeft(s).dest = s.dest
        BY <2>3, Endings DEF PEND
      <3> QED  BY <2>1, <2>2, <2>3, <3>1, <3>2, <3>3, KeptEndings, PlainOnSend
    <2>6. CASE TestSendPending(t, "test_sh")
      <3>1. pc' = [pc EXCEPT ![t] = "idle"] /\ UNCHANGED <<sh, rh, sq, rq, cur, found, matched>>
        BY <2>6 DEF TestSendPending, handles, queues, history
      <3>2. pc'[t] = "idle" /\ \A u \in Nodes : u # t => pc'[u] = pc[u]
        BY <3>1 DEF Good, Types
      <3>3. "idle" \in CarefulLocs \ {"fill_sh", "fill_rh"} /\ "idle" \notin SendLocs /\ "idle" \notin RecvLocs
        BY DEF CarefulLocs, SendLocs, RecvLocs
      <3> QED  BY <2>1, <3>1, <3>2, <3>3, PlainGoto
    <2> QED  BY <1>4, <2>4, <2>5, <2>6
  <1>5. CASE TestRecv(t, "test_rh")
    <2>1. pc[t] \in RecvLocs \ {"fill_sh"}
      BY <1>5 DEF TestRecv, RecvLocs
    <2>2. PICK s : s = rh[cur[t]]
      OBVIOUS
    <2>3. s \in RecvHandle /\ s.live
      BY <2>1, <2>2 DEF Good, Types, Working, Plain, Ongoing
    <2>4. OnRecv(t, IF s.stat = "MATCH" THEN RecvOver(s) ELSE s, "idle")
      BY <1>5, <2>2 DEF TestRecv
    <2>5. RecvOver(s).stat \notin PEND /\ ~RecvOver(s).held /\ "MATCH" \notin PEND
      BY <2>3, RecvEndings DEF PEND
    <2>6. CASE s.stat = "MATCH"
      BY <2>1, <2>2, <2>3, <2>4, <2>5, <2>6, PlainOnRecv
    <2>7. CASE s.stat # "MATCH"
      BY <2>1, <2>2, <2>3, <2>4, <2>7, PlainOnRecv
    <2> QED  BY <2>6, <2>7
  <1> QED  BY <1>3, <1>4, <1>5

\* The calls careful programs make.
LEMMA PlainCalls ==
  ASSUME Careful, Good, Plain, NEW t \in Nodes, ProgramStep(t)
  PROVE  Plain'
  <1>1. /\ \A h \in SH : sh[h] \in SendHandle /\ Kept(sh[h]) /\ (sh[h].held => sh[h].live)
        /\ \A r \in RH : rh[r] \in RecvHandle /\ (rh[r].held \/ rh[r].stat \in PEND => rh[r].live)
        /\ sh \in [SH -> SendHandle] /\ rh \in [RH -> RecvHandle]
        /\ pc \in [Nodes -> Locations] /\ cur \in [Nodes -> Handles]
    BY DEF Good, Types, Plain, Kept
  <1>2. \A x \in {"idle", "start_sh", "enter_wait_sh", "test_sh", "start_rh", "enter_wait_rh", "test_rh"} :
          x \in CarefulLocs \ {"fill_sh", "fill_rh"} /\ x \notin {"wait_sh", "wake_sh"}
    BY DEF CarefulLocs
  <1>3. /\ \A x \in {"idle", "start_rh", "enter_wait_rh", "test_rh"} : x \notin SendLocs
        /\ \A x \in {"idle", "start_sh", "enter_wait_sh", "test_sh"} : x \notin RecvLocs
    BY DEF SendLocs, RecvLocs
  <1>4. ASSUME NEW c \in SendCalls, NEW sys \in BOOLEAN, InitSend(t, c, sys) PROVE Plain'
    <2>1. PICK g : g = <<t, nsh[t] + 1>>
      OBVIOUS
    <2>2. PICK l \in {"idle", "start_sh"} : l = IF c.type = "PERSISTENT" THEN "idle" ELSE "start_sh"
      OBVIOUS
    <2>3. PICK s : s = [stat |-> "CREATE", type |-> c.type, mode |-> c.mode,
                        dest |-> c.dest, tag |-> c.tag, len |-> c.len, sys_buf |-> sys,
                        curdata |-> "user", msg |-> 0, live |-> TRUE, held |-> c.type # "SEND"]
      OBVIOUS
    <2>4. /\ sh' = [sh EXCEPT ![g] = s] /\ cur' = [cur EXCEPT ![t] = g]
          /\ pc[t] = "idle" /\ pc' = [pc EXCEPT ![t] = l]
          /\ UNCHANGED <<rh, sq, rq, found, matched>>
          /\ nsh[t] < MaxSends
          /\ sys => c.mode \in {"STANDARD", "BUFFERED"}
          /\ c.mode = "BUFFERED" /\ c.len > 0 => sys
      BY <1>4, <2>1, <2>2, <2>3 DEF InitSend, Goto, queues, history
    <2>5. g \in SH /\ g[1] = t
      BY <2>1, <2>4, BoundsAssumption DEF SH, Good, Types
    <2>6. sh[g].stat = "NONE"
      <3>1. nsh[t] \in Nat
        BY DEF Good, Types
      <3>2. ~(g[2] <= nsh[g[1]])
        BY <2>1, <3>1
      <3> QED  BY <2>5, <3>2 DEF Good, Unborn, NoSend
    <2>7. Kept(s)
      <3>1. c.len # 0 => c.len > 0
        BY CallsAssumption
      <3> QED  BY <2>3, <2>4, <3>1 DEF Careful, Kept, PEND
    <2>8. s.live /\ s.stat \notin PEND /\ sh[g].stat \notin PEND
      BY <2>3, <2>6 DEF PEND
    <2>9. /\ sh'[g] = s /\ (\A h \in SH : h # g => sh'[h] = sh[h])
          /\ pc'[t] = l /\ cur'[t] = g /\ \A u \in Nodes : u # t => pc'[u] = pc[u] /\ cur'[u] = cur[u]
      BY <1>1, <2>4, <2>5
    <2>10. \A h \in SH : /\ sh'[h] # sh[h] => h[1] = t /\ Kept(sh'[h])
                         /\ sh'[h].stat \in PEND <=> sh[h].stat \in PEND
                         /\ sh'[h].stat \in PEND => sh'[h].dest = sh[h].dest
      BY <2>5, <2>7, <2>8, <2>9
    <2> QED  BY <1>1, <1>2, <1>3, <2>2, <2>4, <2>8, <2>9, <2>10, PlainMove
  <1>5. ASSUME NEW c \in SendCalls, InitSendFails(t, c) PROVE Plain'
    <2>1. UNCHANGED <<sh, rh, sq, rq, pc, cur, found, matched>> /\ pc[t] = "idle"
      BY <1>5 DEF InitSendFails, handles, queues, thread, history
    <2> QED  BY <1>2, <1>3, <2>1, PlainGoto
  <1>6. ASSUME NEW c \in RecvCalls, InitRecv(t, c) PROVE Plain'
    <2>1. PICK g : g = <<t, nrh[t] + 1>>
      OBVIOUS
    <2>2. PICK l \in {"idle", "start_rh"} : l = IF c.type = "INIT" THEN "idle" ELSE "start_rh"
      OBVIOUS
    <2>3. PICK s : s = [stat |-> "CREATE", type |-> c.type, src |-> c.src, tag |-> c.tag,
                        msg |-> 0, live |-> TRUE, held |-> c.type # "RECV"]
      OBVIOUS
    <2>4. /\ rh' = [rh EXCEPT ![g] = s] /\ cur' = [cur EXCEPT ![t] = g]
          /\ pc[t] = "idle" /\ pc' = [pc EXCEPT ![t] = l]
          /\ UNCHANGED <<sh, sq, rq, found, matched>>
          /\ nrh[t] < MaxRecvs
      BY <1>6, <2>1, <2>2, <2>3 DEF InitRecv, Goto, queues, history
    <2>5. g \in RH /\ g[1] = t
      BY <2>1, <2>4, BoundsAssumption DEF RH, Good, Types
    <2>6. rh[g].stat = "NONE"
      <3>1. nrh[t] \in Nat
        BY DEF Good, Types
      <3>2. ~(g[2] <= nrh[g[1]])
        BY <2>1, <3>1
      <3> QED  BY <2>5, <3>2 DEF Good, Unborn, NoRecv
    <2>8. s.live /\ s.stat \notin PEND /\ rh[g].stat \notin PEND
      BY <2>3, <2>6 DEF PEND
    <2>9. /\ rh'[g] = s /\ (\A h \in RH : h # g => rh'[h] = rh[h])
          /\ pc'[t] = l /\ cur'[t] = g /\ \A u \in Nodes : u # t => pc'[u] = pc[u] /\ cur'[u] = cur[u]
      BY <1>1, <2>4, <2>5
    <2>10. \A r \in RH : /\ rh'[r] # rh[r] => r[1] = t
                         /\ rh'[r].held \/ rh'[r].stat \in PEND => rh'[r].live
                         /\ rh'[r].stat \in PEND <=> rh[r].stat \in PEND
      BY <1>1, <2>5, <2>8, <2>9
    <2> QED  BY <1>1, <1>2, <1>3, <2>2, <2>4, <2>8, <2>9, <2>10, PlainMove
  <1>7. ASSUME NEW h \in SH,
               \/ CallStartSend(t, h) \/ CallWaitSend(t, h) \/ CallTestSend(t, h)
               \/ CallCancelSend(t, h) \/ CallFreeSend(t, h)
        PROVE  Plain'
    <2>1. PICK l \in {"start_sh", "enter_wait_sh", "test_sh"}, what \in {"start", "wait", "test"} :
            CallOn(t, what, h, l) /\ sh[h].held /\ (l = "test_sh" => sh[h].stat \in Going)
      BY <1>7 DEF CallStartSend, CallWaitSend, CallTestSend, CallCancelSend, CallFreeSend, CallOn,
                  Careful, Going
    <2>2. /\ pc[t] = "idle" /\ pc' = [pc EXCEPT ![t] = l] /\ cur' = [cur EXCEPT ![t] = h]
          /\ UNCHANGED <<sh, rh, sq, rq, found, matched>>
      BY <2>1 DEF CallOn, Goto, handles, queues, history
    <2>3. pc'[t] = l /\ cur'[t] = h /\ \A u \in Nodes : u # t => pc'[u] = pc[u] /\ cur'[u] = cur[u]
      BY <1>1, <2>2
    <2> QED  BY <1>1, <1>2, <1>3, <2>1, <2>2, <2>3, PlainGoto
  <1>8. ASSUME NEW r \in RH,
               \/ CallStartRecv(t, r) \/ CallWaitRecv(t, r) \/ CallTestRecv(t, r)
               \/ CallCancelRecv(t, r) \/ CallFreeRecv(t, r)
        PROVE  Plain'
    <2>1. PICK l \in {"start_rh", "enter_wait_rh", "test_rh"}, what \in {"start", "wait", "test"} :
            CallOn(t, what, r, l) /\ rh[r].held
      BY <1>8 DEF CallStartRecv, CallWaitRecv, CallTestRecv, CallCancelRecv, CallFreeRecv, CallOn, Careful
    <2>2. /\ pc[t] = "idle" /\ pc' = [pc EXCEPT ![t] = l] /\ cur' = [cur EXCEPT ![t] = r]
          /\ UNCHANGED <<sh, rh, sq, rq, found, matched>>
      BY <2>1 DEF CallOn, Goto, handles, queues, history
    <2>3. pc'[t] = l /\ cur'[t] = r /\ \A u \in Nodes : u # t => pc'[u] = pc[u] /\ cur'[u] = cur[u]
      BY <1>1, <2>2
    <2> QED  BY <1>1, <1>2, <1>3, <2>1, <2>2, <2>3, PlainGoto
  <1> QED  BY <1>4, <1>5, <1>6, <1>7, <1>8 DEF ProgramStep

\* Nothing freed is in a queue or being filled, so no search runs into it.
LEMMA PlainNoCrash ==
  ASSUME Good, Plain, NEW t \in Nodes
  PROVE  ~(StartSendCrash(t) \/ FillRecvCrash(t) \/ StartRecvCrash(t) \/ FillSendCrash(t))
  <1>1. /\ \A h \in SH : sh[h].stat \in PEND => sh[h].live
        /\ \A r \in RH : rh[r].stat \in PEND => rh[r].live
    BY DEF Plain, Kept
  <1>2. Pending
    BY DEF Plain
  <1>3. \A n \in Nodes : sq[n] \in Seq(SH) /\ rq[n] \in Seq(RH)
    BY DEF Good, Types
  <1>4. \A n \in Nodes : \A i \in 1..Len(sq[n]) : sq[n][i] \in SH /\ sh[sq[n][i]].live
    <2> SUFFICES ASSUME NEW n \in Nodes, NEW i \in 1..Len(sq[n])
                 PROVE  sq[n][i] \in SH /\ sh[sq[n][i]].live
      OBVIOUS
    <2>1. sq[n][i] \in SH /\ InQueue(sq[n], sq[n][i])
      BY <1>3, ElementOfSeq DEF InQueue
    <2> QED  BY <1>1, <1>2, <2>1 DEF Pending
  <1>5. \A n \in Nodes : \A i \in 1..Len(rq[n]) : rq[n][i] \in RH /\ rh[rq[n][i]].live
    <2> SUFFICES ASSUME NEW n \in Nodes, NEW i \in 1..Len(rq[n])
                 PROVE  rq[n][i] \in RH /\ rh[rq[n][i]].live
      OBVIOUS
    <2>1. rq[n][i] \in RH /\ InQueue(rq[n], rq[n][i])
      BY <1>3, ElementOfSeq DEF InQueue
    <2> QED  BY <1>1, <1>2, <2>1 DEF Pending
  <1>6. ASSUME StartSendCrash(t) PROVE FALSE
    <2>1. PICK h \in SH : h = cur[t] /\ sh[h].dest \in Nodes /\ sh[h].stat \in {"CREATE", "FREE"}
      BY <1>6 DEF StartSendCrash, Good, Working, SendStates, SendLocs
    <2>2. PICK d \in Nodes : d = sh[h].dest
      BY <2>1
    <2>3. PICK i : i = First(rq[d], rq_cmp(h))
      OBVIOUS
    <2>4. (\E r \in Visited(rq[d], i) : ~rh[r].live) \/ InQueue(sq[d], h)
      BY <1>6, <2>1, <2>2, <2>3 DEF StartSendCrash
    <2>5. ~InQueue(sq[d], h)
      BY <1>2, <2>1 DEF Pending, PEND
    <2>6. i = 0 \/ i \in 1..Len(rq[d])
      BY <1>3, <2>3, FirstIs
    <2>7. \A r \in Visited(rq[d], i) : \E j \in 1..Len(rq[d]) : r = rq[d][j]
      BY <1>3, <2>6 DEF Visited
    <2> QED  BY <1>5, <2>4, <2>5, <2>7
  <1>7. ASSUME StartRecvCrash(t) PROVE FALSE
    <2>1. PICK i : i = First(sq[t], sq_cmp(rh[cur[t]]))
      OBVIOUS
    <2>2. \E h \in Visited(sq[t], i) : ~sh[h].live
      BY <1>7, <2>1 DEF StartRecvCrash
    <2>3. i = 0 \/ i \in 1..Len(sq[t])
      BY <1>3, <2>1, FirstIs
    <2>4. \A h \in Visited(sq[t], i) : \E j \in 1..Len(sq[t]) : h = sq[t][j]
      BY <1>3, <2>3 DEF Visited
    <2> QED  BY <1>4, <2>2, <2>4
  <1>8. ASSUME FillRecvCrash(t) PROVE FALSE
    BY <1>1, <1>2, <1>8 DEF FillRecvCrash, Good, Filling, FillingRecv, Pending
  <1>9. ASSUME FillSendCrash(t) PROVE FALSE
    BY <1>1, <1>2, <1>9 DEF FillSendCrash, Good, Filling, FillingSend, Pending
  <1> QED  BY <1>6, <1>7, <1>8, <1>9

\* A send that is queued is pending until it is taken.
LEMMA PlainStartSendUnmatched ==
  ASSUME Good, Plain, NEW t \in Nodes, StartSendUnmatched(t)
  PROVE  Plain'
  <1>1. PICK h \in SH : h = cur[t] /\ h[1] = t /\ sh[h].dest \in Nodes /\ sh[h].live
    BY DEF StartSendUnmatched, Goto, Good, Working, SendLocs, Plain, Ongoing
  <1>2. PICK d \in Nodes : d = sh[h].dest
    BY <1>1
  <1>3. PICK l \in {"idle", "enter_wait_sh"} : l = AfterStartSend(h)
    BY DEF AfterStartSend
  <1>4. /\ pc[t] = "start_sh" /\ pc' = [pc EXCEPT ![t] = l] /\ ~InQueue(sq[d], h)
        /\ sh' = [sh EXCEPT ![h].stat = "PEND_STRT", ![h].msg = Len(sent[t]) + 1]
        /\ sq' = [sq EXCEPT ![d] = Append(@, h)]
        /\ UNCHANGED <<rh, rq, cur, found, matched>>
    BY <1>1, <1>2, <1>3 DEF StartSendUnmatched, Goto
  <1>5. sh \in [SH -> SendHandle] /\ pc \in [Nodes -> Locations] /\ sq \in [Nodes -> Seq(SH)] /\ NoDup(sq[d])
    BY DEF Good, Types, Queues
  <1>6. \A x : InQueue(Append(sq[d], h), x) <=> InQueue(sq[d], x) \/ x = h
    BY <1>4, <1>5, Appended
  <1>7. \A n \in Nodes : \A x : InQueue(sq'[n], x) <=> InQueue(sq[n], x) \/ (n = d /\ x = h)
    BY <1>4, <1>5, <1>6
  <1>8. /\ \A x \in SH : x # h => sh'[x] = sh[x]
        /\ sh'[h] = [sh[h] EXCEPT !.stat = "PEND_STRT", !.msg = Len(sent[t]) + 1]
        /\ pc'[t] = l /\ \A u \in Nodes : u # t => pc'[u] = pc[u]
    BY <1>4, <1>5
  <1>9. sh'[h].stat = "PEND_STRT" /\ sh'[h].dest = d /\ sh'[h].live /\ Kept(sh'[h])
    <2>1. sh[h] \in SendHandle /\ Kept(sh[h])
      BY <1>5 DEF Plain
    <2>2. /\ sh'[h].stat = "PEND_STRT" /\ sh'[h].dest = d /\ sh'[h].live /\ sh'[h].mode = sh[h].mode
          /\ sh'[h].type = sh[h].type /\ sh'[h].sys_buf = sh[h].sys_buf /\ sh'[h].len = sh[h].len
      BY <1>1, <1>2, <1>8, <2>1 DEF SendHandle
    <2> QED  BY <2>1, <2>2 DEF Kept
  <1>10. l \notin {"fill_sh", "fill_rh"} /\ l \in CarefulLocs /\ l \notin RecvLocs
         /\ l \notin {"wait_sh", "test_sh", "wake_sh"}
    BY DEF CarefulLocs, RecvLocs
  <1>11. Pending'
    <2>1. Pending
      BY DEF Plain
    <2>2. \A x : (SendBeingFilled(x)' <=> SendBeingFilled(x)) /\ (RecvBeingFilled(x)' <=> RecvBeingFilled(x))
      BY <1>4, <1>8, <1>10 DEF SendBeingFilled, RecvBeingFilled
    <2>3. \A x \in SH : sh'[x].stat \in PEND => InQueue(sq'[sh'[x].dest], x) \/ SendBeingFilled(x)'
      <3> SUFFICES ASSUME NEW x \in SH, sh'[x].stat \in PEND
                   PROVE  InQueue(sq'[sh'[x].dest], x) \/ SendBeingFilled(x)'
        OBVIOUS
      <3>1. CASE x = h
        BY <1>7, <1>9, <3>1
      <3>2. CASE x # h
        <4>1. InQueue(sq[sh[x].dest], x) \/ SendBeingFilled(x)
          BY <1>8, <2>1, <3>2 DEF Pending
        <4>2. sh[x].dest \in Nodes
          BY <1>8, <3>2 DEF Good, Unborn, NoSend, PEND
        <4> QED  BY <1>7, <1>8, <2>2, <3>2, <4>1, <4>2
      <3> QED  BY <3>1, <3>2
    <2>4. \A n \in Nodes : \A x \in SH : InQueue(sq'[n], x) => sh'[x].stat \in PEND
      BY <1>7, <1>8, <1>9, <2>1 DEF Pending, PEND
    <2>5. \A u \in Nodes : pc'[u] = "fill_sh" => sh'[found[u]].stat \in PEND
      <3> SUFFICES ASSUME NEW u \in Nodes, pc'[u] = "fill_sh" PROVE sh'[found[u]].stat \in PEND
        OBVIOUS
      <3>1. pc[u] = "fill_sh"
        BY <1>8, <1>10
      <3>2. found[u] \in SH /\ sh[found[u]].stat \in PEND
        BY <2>1, <3>1 DEF Pending, Good, Filling, FillingSend
      <3> QED  BY <1>8, <1>9, <3>2 DEF PEND
    <2>6. \A u \in Nodes : pc'[u] = "fill_rh" => rh[found[u]].stat \in PEND
      BY <1>8, <1>10, <2>1 DEF Pending
    <2>7. \A r \in RH : rh[r].stat \in PEND => InQueue(rq[r[1]], r) \/ RecvBeingFilled(r)'
      BY <2>1, <2>2 DEF Pending
    <2> QED  BY <1>4, <2>1, <2>3, <2>4, <2>5, <2>6, <2>7 DEF Pending
  <1>12. Ongoing'
    <2>1. \A u \in Nodes : u # t /\ pc[u] \in SendLocs => sh'[cur[u]] = sh[cur[u]]
      BY <1>1, <1>8 DEF Good, Working
    <2>2. \A x \in {"wait_sh", "test_sh", "wake_sh"} : x \in SendLocs
      BY DEF SendLocs
    <2>3. Ongoing
      BY DEF Plain
    <2>4. ASSUME NEW u \in Nodes, u # t
          PROVE  /\ pc[u] \in CarefulLocs
                 /\ pc[u] \in SendLocs => sh'[cur[u]].live
                 /\ pc[u] \in RecvLocs => rh[cur[u]].live
                 /\ pc[u] \in {"wait_sh", "test_sh"} => sh'[cur[u]].stat \in Going
                 /\ pc[u] = "wake_sh" => sh'[cur[u]].stat \in {"PEND_WAIT", "MATCH"}
      BY <2>1, <2>2, <2>3, <2>4 DEF Ongoing
    <2>5. /\ l \in CarefulLocs
          /\ l \in SendLocs => sh'[h].live
          /\ l \in RecvLocs => rh[h].live
          /\ l \in {"wait_sh", "test_sh"} => sh'[h].stat \in Going
          /\ l = "wake_sh" => sh'[h].stat \in {"PEND_WAIT", "MATCH"}
      BY <1>9, <1>10
    <2>6. ASSUME NEW u \in Nodes
          PROVE  /\ pc'[u] \in CarefulLocs
                 /\ pc'[u] \in SendLocs => sh'[cur[u]].live
                 /\ pc'[u] \in RecvLocs => rh[cur[u]].live
                 /\ pc'[u] \in {"wait_sh", "test_sh"} => sh'[cur[u]].stat \in Going
                 /\ pc'[u] = "wake_sh" => sh'[cur[u]].stat \in {"PEND_WAIT", "MATCH"}
      <3>1. CASE u = t
        BY <1>1, <1>8, <2>5, <3>1
      <3>2. CASE u # t
        BY <1>8, <2>4, <3>2
      <3> QED  BY <3>1, <3>2
    <2> QED  BY <1>4, <2>6 DEF Ongoing
  <1> QED  BY <1>4, <1>8, <1>9, <1>11, <1>12 DEF Plain, DataIntact

\* A start or a fill by node t leaves every other node in order.
LEMMA OngoingStep ==
  ASSUME Good, Plain, NEW t \in Nodes, cur' = cur,
         \A u \in Nodes : u # t => \/ pc'[u] = pc[u]
                                   \/ pc[u] = "sleep_sh" /\ pc'[u] = "wake_sh"
                                   \/ pc[u] = "sleep_rh" /\ pc'[u] = "wake_rh",
         \A h \in SH : \/ sh'[h] = sh[h] \/ h[1] = t \/ LeftBehind(h)
                       \/ sh[h].stat \in PEND /\ sh'[h].stat = "MATCH" /\ sh'[h].live,
         \A r \in RH : rh'[r].live = rh[r].live,
         pc'[t] \in CarefulLocs \ {"wait_sh", "test_sh", "wake_sh"},
         pc'[t] \in SendLocs => sh'[cur[t]].live,
         pc'[t] \in RecvLocs => rh'[cur[t]].live
  PROVE  Ongoing'
  <1>1. Ongoing /\ Working /\ NoLostWakeup /\ Answered
    BY DEF Plain, Good
  <1>2. ASSUME NEW u \in Nodes
        PROVE  /\ pc'[u] \in CarefulLocs
               /\ pc'[u] \in SendLocs => sh'[cur[u]].live
               /\ pc'[u] \in RecvLocs => rh'[cur[u]].live
               /\ pc'[u] \in {"wait_sh", "test_sh"} => sh'[cur[u]].stat \in Going
               /\ pc'[u] = "wake_sh" => sh'[cur[u]].stat \in {"PEND_WAIT", "MATCH"}
    <2>1. CASE u = t
      BY <2>1
    <2>2. CASE u # t
      <3>1. /\ pc'[u] \in SendLocs <=> pc[u] \in SendLocs
            /\ pc'[u] \in RecvLocs <=> pc[u] \in RecvLocs
            /\ pc'[u] \in CarefulLocs
            /\ pc'[u] \in {"wait_sh", "test_sh"} => pc'[u] = pc[u] /\ pc[u] \in SendLocs
            /\ pc'[u] = "wake_sh" => pc[u] \in {"wake_sh", "sleep_sh"} /\ pc[u] \in SendLocs
        BY <1>1, <2>2 DEF SendLocs, RecvLocs, CarefulLocs, Ongoing
      <3>2. ASSUME pc[u] \in SendLocs
            PROVE  /\ sh'[cur[u]].live
                   /\ sh'[cur[u]] = sh[cur[u]] \/ sh'[cur[u]].stat = "MATCH"
        <4>1. cur[u] \in SH /\ cur[u][1] = u /\ ~LeftBehind(cur[u]) /\ sh[cur[u]].live
          BY <1>1, <3>2 DEF Working, Answered, Ongoing
        <4> QED  BY <2>2, <4>1
      <3>3. pc[u] \in RecvLocs => rh'[cur[u]].live
        BY <1>1 DEF Working, Ongoing
      <3>4. pc[u] = "sleep_sh" => sh[cur[u]].stat = "PEND_WAIT"
        BY <1>1 DEF NoLostWakeup
      <3>5. "MATCH" \in Going
        BY DEF Going
      <3>6. pc'[u] \in {"wait_sh", "test_sh"} => sh'[cur[u]].stat \in Going
        BY <1>1, <3>1, <3>2, <3>5 DEF Ongoing
      <3>7. pc'[u] = "wake_sh" => sh'[cur[u]].stat \in {"PEND_WAIT", "MATCH"}
        BY <1>1, <3>1, <3>2, <3>4 DEF Ongoing
      <3> QED  BY <3>1, <3>2, <3>3, <3>6, <3>7
    <2> QED  BY <2>1, <2>2
  <1> QED  BY <1>2 DEF Ongoing

\* A receive that is taken out of its queue is about to be filled.
LEMMA PlainStartSendMatched ==
  ASSUME Good, Plain, NEW t \in Nodes, StartSendMatched(t)
  PROVE  Plain'
  <1>1. PICK h \in SH : /\ h = cur[t] /\ h[1] = t /\ sh[h].dest \in Nodes /\ sh[h].live
                        /\ sh[h].stat \in {"CREATE", "FREE"}
    BY DEF StartSendMatched, Goto, Good, Working, SendStates, SendLocs, Plain, Ongoing
  <1>2. PICK d \in Nodes : d = sh[h].dest
    BY <1>1
  <1>3. PICK i : i = First(rq[d], rq_cmp(h))
    OBVIOUS
  <1>4. /\ pc[t] = "start_sh" /\ pc' = [pc EXCEPT ![t] = "fill_rh"] /\ i # 0
        /\ sh' = [sh EXCEPT ![h].stat = "MATCH", ![h].msg = Len(sent[t]) + 1]
        /\ found' = [found EXCEPT ![t] = rq[d][i]]
        /\ rq' = [rq EXCEPT ![d] = Without(@, i)]
        /\ UNCHANGED <<rh, sq, cur, matched>>
    BY <1>1, <1>2, <1>3 DEF StartSendMatched, Goto
  <1>5. /\ sh \in [SH -> SendHandle] /\ pc \in [Nodes -> Locations] /\ found \in [Nodes -> Handles]
        /\ rq \in [Nodes -> Seq(RH)] /\ NoDup(rq[d])
    BY DEF Good, Types, Queues
  <1>6. i \in 1..Len(rq[d])
    BY <1>3, <1>4, <1>5, FirstIs
  <1>7. PICK r \in RH : r = rq[d][i] /\ InQueue(rq[d], r) /\ r[1] = d
    BY <1>5, <1>6, Removed DEF Good, Queues
  <1>8. \A x : InQueue(Without(rq[d], i), x) <=> InQueue(rq[d], x) /\ x # r
    BY <1>5, <1>6, <1>7, Removed
  <1>9. \A n \in Nodes, x \in RH : InQueue(rq'[n], x) <=> InQueue(rq[n], x) /\ ~(n = d /\ x = r)
    BY <1>4, <1>5, <1>8
  <1>10. /\ \A x \in SH : x # h => sh'[x] = sh[x]
         /\ sh'[h] = [sh[h] EXCEPT !.stat = "MATCH", !.msg = Len(sent[t]) + 1]
         /\ pc'[t] = "fill_rh" /\ (\A u \in Nodes : u # t => pc'[u] = pc[u])
         /\ found'[t] = r /\ \A u \in Nodes : u # t => found'[u] = found[u]
    BY <1>4, <1>5, <1>7
  <1>11. sh'[h].stat = "MATCH" /\ sh'[h].live /\ Kept(sh'[h])
    <2>1. sh[h] \in SendHandle /\ Kept(sh[h])
      BY <1>5 DEF Plain
    <2>2. /\ sh'[h].stat = "MATCH" /\ sh'[h].live /\ sh'[h].mode = sh[h].mode
          /\ sh'[h].type = sh[h].type /\ sh'[h].sys_buf = sh[h].sys_buf /\ sh'[h].len = sh[h].len
      BY <1>1, <1>10, <2>1 DEF SendHandle
    <2> QED  BY <2>1, <2>2 DEF Kept
  <1>12. Pending'
    <2>1. Pending
      BY DEF Plain
    <2>2. \A x \in SH : SendBeingFilled(x) => SendBeingFilled(x)'
      <3> SUFFICES ASSUME NEW x \in SH, NEW u \in Nodes, pc[u] = "fill_sh", found[u] = x
                   PROVE  pc'[u] = "fill_sh" /\ found'[u] = x
        BY DEF SendBeingFilled
      <3> QED  BY <1>4, <1>10
    <2>3. \A x \in RH : RecvBeingFilled(x) \/ x = r => RecvBeingFilled(x)'
      <3>1. RecvBeingFilled(r)'
        BY <1>10 DEF RecvBeingFilled
      <3>2. ASSUME NEW x \in RH, NEW u \in Nodes, pc[u] = "fill_rh", found[u] = x
            PROVE  pc'[u] = "fill_rh" /\ found'[u] = x
        BY <1>4, <1>10, <3>2
      <3> QED  BY <3>1, <3>2 DEF RecvBeingFilled
    <2>4. \A x \in SH : sh'[x].stat \in PEND => InQueue(sq[sh'[x].dest], x) \/ SendBeingFilled(x)'
      BY <1>10, <1>11, <2>1, <2>2 DEF Pending, PEND
    <2>5. \A x \in RH : rh[x].stat \in PEND => InQueue(rq'[x[1]], x) \/ RecvBeingFilled(x)'
      <3> SUFFICES ASSUME NEW x \in RH, rh[x].stat \in PEND, x # r
                   PROVE  InQueue(rq'[x[1]], x) \/ RecvBeingFilled(x)'
        BY <2>3
      <3>1. InQueue(rq[x[1]], x) \/ RecvBeingFilled(x)
        BY <2>1 DEF Pending
      <3>2. x[1] \in Nodes
        BY DEF RH
      <3> QED  BY <1>9, <2>3, <3>1, <3>2
    <2>6. \A n \in Nodes : \A x \in SH : InQueue(sq[n], x) => sh'[x].stat \in PEND
      <3> SUFFICES ASSUME NEW n \in Nodes, NEW x \in SH, InQueue(sq[n], x) PROVE sh'[x].stat \in PEND
        OBVIOUS
      <3>1. sh[x].stat \in PEND
        BY <2>1 DEF Pending
      <3>2. x # h
        BY <1>1, <3>1 DEF PEND
      <3> QED  BY <1>10, <3>1, <3>2
    <2>7. \A n \in Nodes : \A x \in RH : InQueue(rq'[n], x) => rh[x].stat \in PEND
      BY <1>9, <2>1 DEF Pending
    <2>8. ASSUME NEW u \in Nodes
          PROVE  /\ pc'[u] = "fill_sh" => sh'[found'[u]].stat \in PEND
                 /\ pc'[u] = "fill_rh" => rh[found'[u]].stat \in PEND
      <3>1. CASE u = t
        BY <1>7, <1>10, <2>1, <3>1 DEF Pending
      <3>2. CASE u # t
        <4>1. pc[u] = "fill_sh" => found[u] \in SH /\ sh[found[u]].stat \in PEND
          BY <2>1 DEF Pending, Good, Filling, FillingSend
        <4>2. pc[u] = "fill_sh" => found[u] # h
          BY <1>1, <4>1 DEF PEND
        <4>3. pc[u] = "fill_rh" => rh[found[u]].stat \in PEND
          BY <2>1 DEF Pending
        <4>4. pc'[u] = pc[u] /\ found'[u] = found[u]
          BY <1>10, <3>2
        <4>5. pc[u] = "fill_sh" => sh'[found[u]].stat \in PEND
          BY <1>10, <4>1, <4>2
        <4> QED  BY <4>3, <4>4, <4>5
      <3> QED  BY <3>1, <3>2
    <2> QED  BY <1>4, <2>4, <2>5, <2>6, <2>7, <2>8 DEF Pending
  <1>13. Ongoing'
    <2>1. \A x \in SH : sh'[x] = sh[x] \/ x[1] = t
      BY <1>1, <1>10
    <2>2. "fill_rh" \in CarefulLocs \ {"wait_sh", "test_sh", "wake_sh"} /\ "fill_rh" \notin RecvLocs
      BY DEF CarefulLocs, RecvLocs
    <2>3. cur' = cur /\ (\A x \in RH : rh'[x].live = rh[x].live) /\ sh'[cur[t]].live
      BY <1>1, <1>4, <1>11
    <2>4. pc'[t] = "fill_rh" /\ \A u \in Nodes : u # t => pc'[u] = pc[u]
      BY <1>10
    <2> QED  BY <2>1, <2>2, <2>3, <2>4, OngoingStep
  <1> QED  BY <1>4, <1>10, <1>11, <1>12, <1>13 DEF Plain, DataIntact

\* The sender copies: its own buffer is intact.
LEMMA PlainFillRecv ==
  ASSUME Good, Plain, NEW t \in Nodes, FillRecv(t)
  PROVE  Plain'
  <1>1. PICK h \in SH : h = cur[t] /\ sh[h].live
    BY DEF FillRecv, Good, Working, SendLocs, Plain, Ongoing
  <1>2. PICK r \in RH : /\ r = found[t] /\ chlock[r[1]] = t /\ ~InQueue(rq[r[1]], r) /\ r[1] \in Nodes
    BY DEF FillRecv, Good, Filling, FillingRecv, RH
  <1>3. PICK l \in {"idle", "enter_wait_sh"} : l = AfterStartSend(h)
    BY DEF AfterStartSend
  <1>4. /\ pc[t] = "fill_rh" /\ rh[r].live
        /\ rh' = [rh EXCEPT ![r].src = t, ![r].tag = sh[h].tag,
                            ![r].stat = IF @ \in {"PEND_WAIT", "PEND_STRT"} THEN "MATCH" ELSE @]
        /\ matched' = matched \cup {[msg |-> <<t, sh[h].msg>>, recv |-> <<r[1], rh[r].msg>>,
                                     data |-> "intact"]}
        /\ pc' = [n \in Nodes |->
                    IF n = t THEN l
                    ELSE IF rh[r].stat = "PEND_WAIT" /\ pc[n] = "sleep_rh" /\ cur[n] = r
                         THEN "wake_rh" ELSE pc[n]]
        /\ UNCHANGED <<sh, sq, rq, cur, found>>
    BY <1>1, <1>2, <1>3 DEF FillRecv, queues
  <1>5. rh \in [RH -> RecvHandle]
    BY DEF Good, Types
  <1>6. /\ pc'[t] = l
        /\ \A u \in Nodes : u # t => pc'[u] = pc[u] \/ (pc[u] = "sleep_rh" /\ pc'[u] = "wake_rh")
    BY <1>4
  <1>7. /\ \A u \in Nodes : pc'[u] = "fill_sh" <=> pc[u] = "fill_sh"
        /\ \A u \in Nodes : pc'[u] = "fill_rh" <=> pc[u] = "fill_rh" /\ u # t
    BY <1>4, <1>6
  <1>8. Pending
    BY DEF Plain
  <1>9. rh'[r].stat = "MATCH" /\ (\A x \in RH : x # r => rh'[x] = rh[x])
        /\ \A x \in RH : rh'[x].live = rh[x].live /\ rh'[x].held = rh[x].held
    <2>1. rh[r].stat \in {"PEND_WAIT", "PEND_STRT"}
      BY <1>2, <1>4, <1>5, <1>8 DEF Pending, PEND, RecvHandle
    <2> QED  BY <1>4, <1>5, <2>1 DEF RecvHandle
  <1>10. \A x \in RH : rh'[x].held \/ rh'[x].stat \in PEND => rh'[x].live
    BY <1>9 DEF Plain, PEND
  <1>11. \A u \in Nodes : pc[u] = "fill_rh" /\ u # t => found[u] \in RH /\ found[u] # r
    BY <1>2 DEF Good, Filling, FillingRecv
  <1>12. Pending'
    <2>1. \A x \in SH : SendBeingFilled(x)' <=> SendBeingFilled(x)
      BY <1>4, <1>7 DEF SendBeingFilled
    <2>2. \A x \in RH : x # r /\ RecvBeingFilled(x) => RecvBeingFilled(x)'
      BY <1>2, <1>4, <1>7 DEF RecvBeingFilled
    <2>3. \A x \in RH : rh'[x].stat \in PEND => InQueue(rq[x[1]], x) \/ RecvBeingFilled(x)'
      BY <1>8, <1>9, <2>2 DEF Pending, PEND
    <2>4. \A n \in Nodes : \A x \in RH : InQueue(rq[n], x) => rh'[x].stat \in PEND
      BY <1>2, <1>8, <1>9 DEF Pending, Good, Queues
    <2>5. \A u \in Nodes : pc'[u] = "fill_rh" => rh'[found[u]].stat \in PEND
      BY <1>7, <1>8, <1>9, <1>11 DEF Pending
    <2>6. \A u \in Nodes : pc'[u] = "fill_sh" => sh[found[u]].stat \in PEND
      BY <1>7, <1>8 DEF Pending
    <2>7. \A x \in SH : sh[x].stat \in PEND => InQueue(sq[sh[x].dest], x) \/ SendBeingFilled(x)'
      BY <1>8, <2>1 DEF Pending
    <2>8. \A n \in Nodes : \A x \in SH : InQueue(sq[n], x) => sh[x].stat \in PEND
      BY <1>8 DEF Pending
    <2> QED  BY <1>4, <2>3, <2>4, <2>5, <2>6, <2>7, <2>8 DEF Pending
  <1>13. Ongoing'
    <2>1. l \in CarefulLocs \ {"wait_sh", "test_sh", "wake_sh"} /\ l \notin RecvLocs
      BY DEF CarefulLocs, RecvLocs
    <2> QED  BY <1>1, <1>4, <1>6, <1>9, <2>1, OngoingStep
  <1>14. DataIntact'
    BY <1>4 DEF Plain, DataIntact
  <1> QED  BY <1>4, <1>10, <1>12, <1>13, <1>14 DEF Plain

\* A receive that is queued is pending until it is taken.
LEMMA PlainStartRecvUnmatched ==
  ASSUME Good, Plain, NEW t \in Nodes, StartRecvUnmatched(t)
  PROVE  Plain'
  <1>1. PICK r \in RH : r = cur[t] /\ r[1] = t /\ rh[r].live /\ rh[r].stat = "CREATE"
    BY DEF StartRecvUnmatched, Goto, Good, Working, RecvStates, RecvLocs, Plain, Ongoing
  <1>2. PICK l \in {"idle", "enter_wait_rh"} : l = AfterStartRecv(r)
    BY DEF AfterStartRecv
  <1>3. /\ pc[t] = "start_rh" /\ pc' = [pc EXCEPT ![t] = l]
        /\ rh' = [rh EXCEPT ![r].stat = "PEND_STRT", ![r].msg = Len(posted[t]) + 1]
        /\ rq' = [rq EXCEPT ![t] = Append(@, r)]
        /\ UNCHANGED <<sh, sq, cur, found, matched>>
    BY <1>1, <1>2 DEF StartRecvUnmatched, Goto
  <1>4. rh \in [RH -> RecvHandle] /\ pc \in [Nodes -> Locations] /\ rq \in [Nodes -> Seq(RH)] /\ NoDup(rq[t])
    BY DEF Good, Types, Queues
  <1>5. Pending
    BY DEF Plain
  <1>6. ~InQueue(rq[t], r)
    BY <1>1, <1>5 DEF Pending, PEND
  <1>7. \A x : InQueue(Append(rq[t], r), x) <=> InQueue(rq[t], x) \/ x = r
    BY <1>4, <1>6, Appended
  <1>8. \A n \in Nodes : \A x : InQueue(rq'[n], x) <=> InQueue(rq[n], x) \/ (n = t /\ x = r)
    BY <1>3, <1>4, <1>7
  <1>9. /\ \A x \in RH : x # r => rh'[x] = rh[x]
        /\ rh'[r] = [rh[r] EXCEPT !.stat = "PEND_STRT", !.msg = Len(posted[t]) + 1]
        /\ pc'[t] = l /\ \A u \in Nodes : u # t => pc'[u] = pc[u]
    BY <1>3, <1>4
  <1>10. rh'[r].stat = "PEND_STRT" /\ rh'[r].live /\ rh'[r].live = rh[r].live
    <2>1. rh[r] \in RecvHandle
      BY <1>4
    <2>2. rh'[r].stat = "PEND_STRT"
      BY <1>9, <2>1 DEF RecvHandle
    <2>3. rh'[r].live = rh[r].live
      BY <1>9, <2>1 DEF RecvHandle
    <2> QED  BY <1>1, <2>2, <2>3
  <1>11. l \notin {"fill_sh", "fill_rh"} /\ l \in CarefulLocs /\ l \notin SendLocs
         /\ l \notin {"wait_sh", "test_sh", "wake_sh"}
    BY DEF CarefulLocs, SendLocs
  <1>12. Pending'
    <2>1. \A x : (SendBeingFilled(x)' <=> SendBeingFilled(x)) /\ (RecvBeingFilled(x)' <=> RecvBeingFilled(x))
      BY <1>3, <1>9, <1>11 DEF SendBeingFilled, RecvBeingFilled
    <2>2. \A x \in RH : rh'[x].stat \in PEND => InQueue(rq'[x[1]], x) \/ RecvBeingFilled(x)'
      <3> SUFFICES ASSUME NEW x \in RH, rh'[x].stat \in PEND
                   PROVE  InQueue(rq'[x[1]], x) \/ RecvBeingFilled(x)'
        OBVIOUS
      <3>1. CASE x = r
        BY <1>1, <1>8, <3>1
      <3>2. CASE x # r
        <4>1. InQueue(rq[x[1]], x) \/ RecvBeingFilled(x)
          BY <1>5, <1>9, <3>2 DEF Pending
        <4>2. x[1] \in Nodes
          BY DEF RH
        <4> QED  BY <1>8, <2>1, <4>1, <4>2
      <3> QED  BY <3>1, <3>2
    <2>3. \A n \in Nodes : \A x \in RH : InQueue(rq'[n], x) => rh'[x].stat \in PEND
      BY <1>5, <1>8, <1>9, <1>10 DEF Pending, PEND
    <2>4. \A u \in Nodes : pc'[u] = "fill_rh" => rh'[found[u]].stat \in PEND
      <3> SUFFICES ASSUME NEW u \in Nodes, pc'[u] = "fill_rh" PROVE rh'[found[u]].stat \in PEND
        OBVIOUS
      <3>1. pc[u] = "fill_rh"
        BY <1>9, <1>11
      <3>2. found[u] \in RH /\ rh[found[u]].stat \in PEND
        BY <1>5, <3>1 DEF Pending, Good, Filling, FillingRecv
      <3> QED  BY <1>9, <1>10, <3>2 DEF PEND
    <2>5. \A u \in Nodes : pc'[u] = "fill_sh" => sh[found[u]].stat \in PEND
      BY <1>5, <1>9, <1>11 DEF Pending
    <2>6. \A x \in SH : sh[x].stat \in PEND => InQueue(sq[sh[x].dest], x) \/ SendBeingFilled(x)'
      BY <1>5, <2>1 DEF Pending
    <2>7. \A n \in Nodes : \A x \in SH : InQueue(sq[n], x) => sh[x].stat \in PEND
      BY <1>5 DEF Pending
    <2> QED  BY <1>3, <2>2, <2>3, <2>4, <2>5, <2>6, <2>7 DEF Pending
  <1>13. Ongoing'
    <2>1. \A x \in RH : rh'[x].live = rh[x].live
      BY <1>1, <1>9, <1>10
    <2>2. cur' = cur /\ rh'[cur[t]].live /\ \A x \in SH : sh'[x] = sh[x]
      BY <1>1, <1>3, <1>10
    <2> QED  BY <1>9, <1>11, <2>1, <2>2, OngoingStep
  <1> QED  BY <1>3, <1>9, <1>10, <1>12, <1>13 DEF Plain, DataIntact

\* A send that is taken out of its queue is about to be filled.
LEMMA PlainStartRecvMatched ==
  ASSUME Good, Plain, NEW t \in Nodes, StartRecvMatched(t)
  PROVE  Plain'
  <1>1. PICK r \in RH : r = cur[t] /\ r[1] = t /\ rh[r].live /\ rh[r].stat = "CREATE"
    BY DEF StartRecvMatched, Goto, Good, Working, RecvStates, RecvLocs, Plain, Ongoing
  <1>2. PICK i : i = First(sq[t], sq_cmp(rh[r]))
    OBVIOUS
  <1>3. /\ pc[t] = "start_rh" /\ pc' = [pc EXCEPT ![t] = "fill_sh"] /\ i # 0
        /\ rh' = [rh EXCEPT ![r].msg = Len(posted[t]) + 1]
        /\ found' = [found EXCEPT ![t] = sq[t][i]]
        /\ sq' = [sq EXCEPT ![t] = Without(@, i)]
        /\ UNCHANGED <<sh, rq, cur, matched>>
    BY <1>1, <1>2 DEF StartRecvMatched, Goto
  <1>4. /\ rh \in [RH -> RecvHandle] /\ pc \in [Nodes -> Locations] /\ found \in [Nodes -> Handles]
        /\ sq \in [Nodes -> Seq(SH)] /\ NoDup(sq[t])
    BY DEF Good, Types, Queues
  <1>5. i \in 1..Len(sq[t])
    BY <1>2, <1>3, <1>4, FirstIs
  <1>6. PICK h \in SH : h = sq[t][i] /\ InQueue(sq[t], h)
    BY <1>4, <1>5, Removed
  <1>7. \A x : InQueue(Without(sq[t], i), x) <=> InQueue(sq[t], x) /\ x # h
    BY <1>4, <1>5, <1>6, Removed
  <1>8. \A n \in Nodes, x \in SH : InQueue(sq'[n], x) <=> InQueue(sq[n], x) /\ ~(n = t /\ x = h)
    BY <1>3, <1>4, <1>7
  <1>9. /\ \A x \in RH : rh'[x].stat = rh[x].stat /\ rh'[x].live = rh[x].live /\ rh'[x].held = rh[x].held
        /\ pc'[t] = "fill_sh" /\ (\A u \in Nodes : u # t => pc'[u] = pc[u])
        /\ found'[t] = h /\ \A u \in Nodes : u # t => found'[u] = found[u]
    BY <1>3, <1>4, <1>6 DEF RecvHandle
  <1>10. Pending
    BY DEF Plain
  <1>11. Pending'
    <2>1. \A x \in RH : RecvBeingFilled(x) => RecvBeingFilled(x)'
      <3> SUFFICES ASSUME NEW x \in RH, NEW u \in Nodes, pc[u] = "fill_rh", found[u] = x
                   PROVE  pc'[u] = "fill_rh" /\ found'[u] = x
        BY DEF RecvBeingFilled
      <3> QED  BY <1>3, <1>9
    <2>2. \A x \in SH : SendBeingFilled(x) \/ x = h => SendBeingFilled(x)'
      <3>1. SendBeingFilled(h)'
        BY <1>9 DEF SendBeingFilled
      <3>2. ASSUME NEW x \in SH, NEW u \in Nodes, pc[u] = "fill_sh", found[u] = x
            PROVE  pc'[u] = "fill_sh" /\ found'[u] = x
        BY <1>3, <1>9, <3>2
      <3> QED  BY <3>1, <3>2 DEF SendBeingFilled
    <2>3. \A x \in RH : rh'[x].stat \in PEND => InQueue(rq[x[1]], x) \/ RecvBeingFilled(x)'
      BY <1>9, <1>10, <2>1 DEF Pending
    <2>4. \A x \in SH : sh[x].stat \in PEND => InQueue(sq'[sh[x].dest], x) \/ SendBeingFilled(x)'
      <3> SUFFICES ASSUME NEW x \in SH, sh[x].stat \in PEND, x # h
                   PROVE  InQueue(sq'[sh[x].dest], x) \/ SendBeingFilled(x)'
        BY <2>2
      <3>1. InQueue(sq[sh[x].dest], x) \/ SendBeingFilled(x)
        BY <1>10 DEF Pending
      <3>2. sh[x].dest \in Nodes
        BY DEF Good, Unborn, NoSend, PEND
      <3> QED  BY <1>8, <2>2, <3>1, <3>2
    <2>5. \A n \in Nodes : \A x \in SH : InQueue(sq'[n], x) => sh[x].stat \in PEND
      BY <1>8, <1>10 DEF Pending
    <2>6. \A n \in Nodes : \A x \in RH : InQueue(rq[n], x) => rh'[x].stat \in PEND
      BY <1>9, <1>10 DEF Pending
    <2>7. ASSUME NEW u \in Nodes
          PROVE  /\ pc'[u] = "fill_sh" => sh[found'[u]].stat \in PEND
                 /\ pc'[u] = "fill_rh" => rh'[found'[u]].stat \in PEND
      <3>1. CASE u = t
        BY <1>6, <1>9, <1>10, <3>1 DEF Pending
      <3>2. CASE u # t
        <4>1. pc[u] = "fill_rh" => found[u] \in RH /\ rh[found[u]].stat \in PEND
          BY <1>10 DEF Pending, Good, Filling, FillingRecv
        <4>2. pc[u] = "fill_sh" => sh[found[u]].stat \in PEND
          BY <1>10 DEF Pending
        <4>3. pc'[u] = pc[u] /\ found'[u] = found[u]
          BY <1>9, <3>2
        <4> QED  BY <1>9, <4>1, <4>2, <4>3
      <3> QED  BY <3>1, <3>2
    <2> QED  BY <1>3, <2>3, <2>4, <2>5, <2>6, <2>7 DEF Pending
  <1>12. Ongoing'
    <2>1. "fill_sh" \in CarefulLocs \ {"wait_sh", "test_sh", "wake_sh"} /\ "fill_sh" \notin SendLocs
      BY DEF CarefulLocs, SendLocs
    <2>2. cur' = cur /\ (\A x \in RH : rh'[x].live = rh[x].live) /\ rh'[cur[t]].live
          /\ \A x \in SH : sh'[x] = sh[x]
      BY <1>1, <1>3, <1>9
    <2>3. pc'[t] = "fill_sh" /\ \A u \in Nodes : u # t => pc'[u] = pc[u]
      BY <1>9
    <2> QED  BY <2>1, <2>2, <2>3, OngoingStep
  <1> QED  BY <1>3, <1>9, <1>11, <1>12 DEF Plain, DataIntact

\* The receiver copies: the sender waits, or has left the message in a system buffer.
LEMMA PlainFillSend ==
  ASSUME Good, Plain, NEW t \in Nodes, FillSend(t)
  PROVE  Plain'
  <1>1. PICK r \in RH : r = cur[t] /\ rh[r].live /\ rh[r].stat = "CREATE"
    BY DEF FillSend, Good, Working, RecvLocs, Plain, Ongoing, Filling, FillingSend
  <1>2. PICK h \in SH : h = found[t] /\ ~InQueue(sq[t], h) /\ sh[h].dest = t /\ sh[h].stat \in PEND
    BY DEF FillSend, Good, Filling, FillingSend, Plain, Pending
  <1>3. PICK l \in {"idle", "enter_wait_rh"} : l = AfterStartRecv(r)
    BY DEF AfterStartRecv
  <1>4. /\ pc[t] = "fill_sh" /\ sh[h].live
        /\ rh' = [rh EXCEPT ![r].src = h[1], ![r].tag = sh[h].tag, ![r].stat = "MATCH"]
        /\ sh' = [sh EXCEPT ![h] = CASE @.stat \in {"PEND_WAIT", "PEND_STRT"} -> [@ EXCEPT !.stat = "MATCH"]
                                     [] @.stat = "PEND_RELS" -> SendOver(@)
                                     [] OTHER -> @]
        /\ matched' = matched \cup {[msg |-> <<h[1], sh[h].msg>>, recv |-> <<t, rh[r].msg>>,
                                     data |-> Content(sh[h])]}
        /\ pc' = [n \in Nodes |->
                    IF n = t THEN l
                    ELSE IF sh[h].stat = "PEND_WAIT" /\ pc[n] = "sleep_sh" /\ cur[n] = h
                         THEN "wake_sh" ELSE pc[n]]
        /\ UNCHANGED <<sq, rq, cur, found>>
    BY <1>1, <1>2, <1>3 DEF FillSend, queues
  <1>5. rh \in [RH -> RecvHandle] /\ sh \in [SH -> SendHandle] /\ sh[h] \in SendHandle /\ Kept(sh[h])
    BY DEF Good, Types, Plain
  <1>6. /\ pc'[t] = l
        /\ \A u \in Nodes : u # t => pc'[u] = pc[u] \/ (pc[u] = "sleep_sh" /\ pc'[u] = "wake_sh")
    BY <1>4
  <1>7. /\ \A u \in Nodes : pc'[u] = "fill_rh" <=> pc[u] = "fill_rh"
        /\ \A u \in Nodes : pc'[u] = "fill_sh" <=> pc[u] = "fill_sh" /\ u # t
    BY <1>4, <1>6
  <1>8. Pending
    BY DEF Plain
  <1>9. \A x \in SH : x # h => sh'[x] = sh[x]
    BY <1>4, <1>5
  <1>10. /\ Kept(sh'[h]) /\ sh'[h].stat \notin PEND
         /\ LeftBehind(h) \/ (sh'[h].stat = "MATCH" /\ sh'[h].live)
    <2>1. CASE sh[h].stat \in {"PEND_WAIT", "PEND_STRT"}
      <3>1. sh'[h] = [sh[h] EXCEPT !.stat = "MATCH"]
        BY <1>4, <1>5, <2>1
      <3>2. /\ sh'[h].stat = "MATCH" /\ sh'[h].live /\ sh'[h].mode = sh[h].mode
            /\ sh'[h].type = sh[h].type /\ sh'[h].sys_buf = sh[h].sys_buf /\ sh'[h].len = sh[h].len
        BY <1>4, <1>5, <3>1 DEF SendHandle
      <3> QED  BY <1>5, <3>2 DEF Kept, PEND
    <2>2. CASE sh[h].stat = "PEND_RELS"
      <3>1. sh'[h] = SendOver(sh[h])
        BY <1>4, <1>5, <2>2
      <3>2. sh[h].type # "PERSISTENT"
        BY <1>5, <2>2 DEF Kept, Buffered
      <3> QED  BY <1>5, <2>2, <3>1, <3>2, KeptEndings, Endings DEF LeftBehind, PEND
    <2> QED  BY <1>2, <2>1, <2>2 DEF PEND
  <1>11. \A x \in RH : /\ rh'[x].stat = "MATCH" \/ rh'[x].stat = rh[x].stat
                       /\ rh'[x].live = rh[x].live /\ rh'[x].held = rh[x].held
                       /\ x # r => rh'[x].stat = rh[x].stat
    BY <1>4, <1>5 DEF RecvHandle
  <1>12. \A x \in RH : rh'[x].held \/ rh'[x].stat \in PEND => rh'[x].live
    BY <1>11 DEF Plain, PEND
  <1>13. \A u \in Nodes : pc[u] = "fill_sh" /\ u # t => found[u] \in SH /\ found[u] # h
    BY <1>2 DEF Good, Filling, FillingSend
  <1>14. Pending'
    <2>1. \A x \in RH : RecvBeingFilled(x)' <=> RecvBeingFilled(x)
      BY <1>4, <1>7 DEF RecvBeingFilled
    <2>2. \A x \in SH : x # h /\ SendBeingFilled(x) => SendBeingFilled(x)'
      BY <1>2, <1>4, <1>7 DEF SendBeingFilled
    <2>3. \A x \in SH : sh'[x].stat \in PEND => InQueue(sq[sh'[x].dest], x) \/ SendBeingFilled(x)'
      BY <1>8, <1>9, <1>10, <2>2 DEF Pending
    <2>4. \A n \in Nodes : \A x \in SH : InQueue(sq[n], x) => sh'[x].stat \in PEND
      BY <1>2, <1>8, <1>9 DEF Pending, Good, Queues
    <2>5. \A u \in Nodes : pc'[u] = "fill_sh" => sh'[found[u]].stat \in PEND
      BY <1>7, <1>8, <1>9, <1>13 DEF Pending
    <2>6. \A x \in RH : rh[x].stat \in PEND => rh'[x].stat = rh[x].stat
      BY <1>1, <1>11 DEF PEND
    <2>7. \A x \in RH : rh'[x].stat \in PEND => InQueue(rq[x[1]], x) \/ RecvBeingFilled(x)'
      BY <1>8, <1>11, <2>1 DEF Pending, PEND
    <2>8. \A n \in Nodes : \A x \in RH : InQueue(rq[n], x) => rh'[x].stat \in PEND
      BY <1>8, <2>6 DEF Pending
    <2>9. \A u \in Nodes : pc'[u] = "fill_rh" => rh'[found[u]].stat \in PEND
      BY <1>7, <1>8, <2>6 DEF Pending, Good, Filling, FillingRecv
    <2> QED  BY <1>4, <2>3, <2>4, <2>5, <2>7, <2>8, <2>9 DEF Pending
  <1>15. Ongoing'
    <2>1. l \in CarefulLocs \ {"wait_sh", "test_sh", "wake_sh"} /\ l \notin SendLocs
      BY DEF CarefulLocs, SendLocs
    <2>2. cur' = cur /\ (\A x \in RH : rh'[x].live = rh[x].live) /\ rh'[cur[t]].live
      BY <1>1, <1>4, <1>11
    <2>3. \A x \in SH : \/ sh'[x] = sh[x] \/ LeftBehind(x)
                        \/ sh[x].stat \in PEND /\ sh'[x].stat = "MATCH" /\ sh'[x].live
      BY <1>2, <1>9, <1>10
    <2> QED  BY <1>6, <2>1, <2>2, <2>3, OngoingStep
  <1>16. DataIntact'
    <2>1. ~(sh[h].len > 0 /\ sh[h].curdata = "user" /\ sh[h].stat \in {"PEND_RELS", "FREE"})
      BY <1>2, <1>5 DEF Kept, PEND, SendHandle
    <2>2. Content(sh[h]) = "intact"
      BY <2>1 DEF Content
    <2> QED  BY <1>4, <2>2 DEF Plain, DataIntact
  <1>17. \A x \in SH : Kept(sh'[x])
    BY <1>9, <1>10 DEF Plain
  <1> QED  BY <1>12, <1>14, <1>15, <1>16, <1>17 DEF Plain

\* Every step of a careful program, none of which crashes.
LEMMA PlainStep ==
  ASSUME Careful, Good, Plain, [Next]_vars
  PROVE  Good' /\ Plain'
  <1>1. Plain'
    <2>1. CASE UNCHANGED vars
      BY <2>1 DEF vars, Plain, Kept, Pending, Ongoing, DataIntact, SendBeingFilled, RecvBeingFilled, Buffered
    <2>2. ASSUME NEW t \in Nodes, StartStep(t) PROVE Plain'
      BY <2>2, PlainNoCrash, PlainStartSendUnmatched, PlainStartSendMatched, PlainFillRecv,
         PlainStartRecvUnmatched, PlainStartRecvMatched, PlainFillSend DEF StartStep
    <2>3. ASSUME NEW t \in Nodes, SpuriousWakeup(t) PROVE Plain'
      <3>1. PICK l \in {"wake_sh", "wake_rh"} :
              /\ pc[t] = (IF l = "wake_sh" THEN "sleep_sh" ELSE "sleep_rh") /\ pc' = [pc EXCEPT ![t] = l]
              /\ UNCHANGED <<sh, rh, sq, rq, cur, found, matched>>
        BY <2>3 DEF SpuriousWakeup, Goto, handles, queues, history
      <3>2. pc'[t] = l /\ \A u \in Nodes : u # t => pc'[u] = pc[u]
        BY <3>1 DEF Good, Types
      <3>3. /\ l = "wake_sh" => sh[cur[t]].live /\ sh[cur[t]].stat = "PEND_WAIT"
            /\ l = "wake_rh" => rh[cur[t]].live
        BY <3>1 DEF Plain, Ongoing, Good, NoLostWakeup, SendLocs, RecvLocs
      <3>4. /\ l \in CarefulLocs \ {"fill_sh", "fill_rh"} /\ l \notin {"wait_sh", "test_sh"}
            /\ l \in SendLocs => l = "wake_sh"
            /\ l \in RecvLocs => l = "wake_rh"
        BY DEF CarefulLocs, SendLocs, RecvLocs
      <3> QED  BY <3>1, <3>2, <3>3, <3>4, PlainGoto
    <2> QED  BY <2>1, <2>2, <2>3, PlainWaits, PlainRequests, PlainCalls DEF Next, LibraryStep
  <1>2. Good'
    <2>1. CASE UNCHANGED vars
      BY <2>1, GoodUnchanged
    <2>2. CASE Next
      <3>1. PICK t \in Nodes : LibraryStep(t) \/ ProgramStep(t) \/ SpuriousWakeup(t)
        BY <2>2 DEF Next
      <3> QED  BY <3>1, GoodMove, PlainNoCrash
    <2> QED  BY <2>1, <2>2
  <1> QED  BY <1>1, <1>2

\* There are no handles in the beginning.
LEMMA InitPlain == Init => Plain
  <1> SUFFICES ASSUME Init PROVE Plain
    OBVIOUS
  <1>1. /\ sh = [h \in SH |-> NoSend] /\ rh = [r \in RH |-> NoRecv]
        /\ sq = [n \in Nodes |-> <<>>] /\ rq = [n \in Nodes |-> <<>>]
        /\ pc = [n \in Nodes |-> "idle"] /\ matched = {}
    BY DEF Init, tmpi_intra_init
  <1>2. \A h \in SH : Kept(sh[h]) /\ sh[h].stat \notin PEND
    BY <1>1 DEF NoSend, Kept, PEND
  <1>3. \A r \in RH : ~rh[r].held /\ rh[r].stat \notin PEND
    BY <1>1 DEF NoRecv, PEND
  <1>4. \A n \in Nodes : \A x : ~InQueue(sq[n], x) /\ ~InQueue(rq[n], x)
    BY <1>1 DEF InQueue
  <1>5. \A n \in Nodes : pc[n] = "idle" /\ pc[n] \in CarefulLocs /\ pc[n] \notin SendLocs /\ pc[n] \notin RecvLocs
    BY <1>1 DEF CarefulLocs, SendLocs, RecvLocs
  <1>6. Pending
    BY <1>2, <1>3, <1>4, <1>5 DEF Pending
  <1>7. Ongoing
    BY <1>5 DEF Ongoing
  <1>8. DataIntact
    BY <1>1 DEF DataIntact
  <1> QED  BY <1>2, <1>3, <1>6, <1>7, <1>8 DEF Plain

\* The counters stay within the bounds of the model.
Bounded ==
  /\ nsh \in [Nodes -> 0..MaxSends] /\ nrh \in [Nodes -> 0..MaxRecvs]
  /\ spurious \in 0..MaxSpurious

\* The counters stay within their bounds.
LEMMA BoundedStep ==
  ASSUME Bounded, [Next]_vars
  PROVE  Bounded'
  <1>1. CASE UNCHANGED <<nsh, nrh, spurious>>
    BY <1>1 DEF Bounded
  <1>2. CASE \E t \in Nodes : /\ nsh[t] < MaxSends /\ nsh' = [nsh EXCEPT ![t] = @ + 1]
                              /\ UNCHANGED <<nrh, spurious>>
    BY <1>2, BoundsAssumption DEF Bounded
  <1>3. CASE \E t \in Nodes : /\ nrh[t] < MaxRecvs /\ nrh' = [nrh EXCEPT ![t] = @ + 1]
                              /\ UNCHANGED <<nsh, spurious>>
    BY <1>3, BoundsAssumption DEF Bounded
  <1>4. CASE spurious < MaxSpurious /\ spurious' = spurious + 1 /\ UNCHANGED <<nsh, nrh>>
    BY <1>4, BoundsAssumption DEF Bounded
  <1>5. ASSUME NEW t \in Nodes, StartStep(t) PROVE Bounded'
    BY <1>1, <1>5 DEF StartStep, StartSendUnmatched, StartSendMatched, FillRecv, StartRecvUnmatched,
                      StartRecvMatched, FillSend, StartSendCrash, FillRecvCrash, StartRecvCrash,
                      FillSendCrash, Crash, counts
  <1>6. ASSUME NEW t \in Nodes, WaitStep(t) PROVE Bounded'
    BY <1>1, <1>6 DEF WaitStep, EnterWaitSend, WaitSendMatched, WaitSendSync, WaitSendBuffered,
                      WaitSendNotReady, WakeSendAgain, WakeSend, EnterWaitRecv, WaitRecvMatched,
                      WaitRecvSleep, WakeRecvAgain, WakeRecv, OnSend, OnRecv, counts
  <1>7. ASSUME NEW t \in Nodes, RequestStep(t) PROVE Bounded'
    BY <1>1, <1>7 DEF RequestStep, TestSendMatched, TestSendBuffered, TestSendPending, TestRecv,
                      CancelSend, CancelRecv, FreeSend, FreeSendTest, FreeRecv, OnSend, OnRecv, counts
  <1>8. ASSUME NEW t \in Nodes, ProgramStep(t) PROVE Bounded'
    <2>1. CASE \E c \in SendCalls : (\E sys \in BOOLEAN : InitSend(t, c, sys)) \/ InitSendFails(t, c)
      <3>1. nsh[t] < MaxSends /\ nsh' = [nsh EXCEPT ![t] = @ + 1] /\ UNCHANGED <<nrh, spurious>>
        BY <2>1 DEF InitSend, InitSendFails
      <3> QED  BY <1>2, <3>1
    <2>2. CASE \E c \in RecvCalls : InitRecv(t, c)
      <3>1. nrh[t] < MaxRecvs /\ nrh' = [nrh EXCEPT ![t] = @ + 1] /\ UNCHANGED <<nsh, spurious>>
        BY <2>2 DEF InitRecv
      <3> QED  BY <1>3, <3>1
    <2>3. CASE \E h \in SH : \/ CallStartSend(t, h) \/ CallWaitSend(t, h) \/ CallTestSend(t, h)
                             \/ CallCancelSend(t, h) \/ CallFreeSend(t, h)
      BY <1>1, <2>3 DEF CallStartSend, CallWaitSend, CallTestSend, CallCancelSend, CallFreeSend,
                        CallOn, counts
    <2>4. CASE \E r \in RH : \/ CallStartRecv(t, r) \/ CallWaitRecv(t, r) \/ CallTestRecv(t, r)
                             \/ CallCancelRecv(t, r) \/ CallFreeRecv(t, r)
      BY <1>1, <2>4 DEF CallStartRecv, CallWaitRecv, CallTestRecv, CallCancelRecv, CallFreeRecv,
                        CallOn, counts
    <2> QED  BY <1>8, <2>1, <2>2, <2>3, <2>4 DEF ProgramStep
  <1>9. ASSUME NEW t \in Nodes, SpuriousWakeup(t) PROVE Bounded'
    BY <1>4, <1>9 DEF SpuriousWakeup
  <1>10. CASE UNCHANGED vars
    BY <1>1, <1>10 DEF vars
  <1> QED  BY <1>5, <1>6, <1>7, <1>8, <1>9, <1>10 DEF Next, LibraryStep

\* They start from zero.
LEMMA InitBounded == Init => Bounded
  BY BoundsAssumption DEF Init, Bounded

\* Careful programs never reach a freed handle, whatever the interleaving: all that is in a
\* queue of intra_sr.c is alive and to be matched.
THEOREM CarefulInvariance ==
  ASSUME Careful
  PROVE  Safe => [](Good /\ Plain /\ Bounded)
  <1>1. Init => Good /\ Plain /\ Bounded
    BY InitGood, InitPlain, InitBounded
  <1>2. Good /\ Plain /\ Bounded /\ [Next]_vars => (Good /\ Plain /\ Bounded)'
    BY PlainStep, BoundedStep
  <1> QED  BY <1>1, <1>2, PTL DEF Safe

\* Programs that are careful with their requests, in every mode but the ready one: a
\* handle is pending exactly while the other side can find it, everything in a queue is
\* alive, a sleeper's handle is still to be matched, nothing freed is reached and nothing
\* leaks (intra_sr.c:55-100, 521-800).
THEOREM HandlesAreSound ==
  ASSUME Careful
  PROVE  Safe => []HandlesSound
  <1>1. Good /\ Plain /\ Bounded => HandlesSound
    <2> SUFFICES ASSUME Good, Plain, Bounded PROVE HandlesSound
      OBVIOUS
    <2>1. TypeOK
      <3>1. \A h \in SH : sh[h] \in SendHandle /\ h[1] \in Nodes /\ sh[h].msg <= Len(sent[h[1]])
        BY DEF Good, Types, Numbers, SH
      <3>2. \A r \in RH : rh[r] \in RecvHandle /\ r[1] \in Nodes /\ rh[r].msg <= Len(posted[r[1]])
        BY DEF Good, Types, Numbers, RH
      <3>3. \A n \in Nodes : Len(sent[n]) \in Nat /\ Len(posted[n]) \in Nat
        BY DEF Good, Types
      <3>4. \A h \in SH : /\ sh[h].stat \in Stats /\ sh[h].type \in SendTypes /\ sh[h].mode \in Modes
                          /\ sh[h].dest \in Nodes \cup {NoNode} /\ sh[h].msg \in 0..Len(sent[h[1]])
                          /\ shlock[h] \in Nodes \cup {NoNode}
        BY <3>1, <3>3 DEF Good, Types, SendHandle
      <3>5. \A r \in RH : /\ rh[r].stat \in Stats \ {"PEND_RELS"} /\ rh[r].type \in RecvTypes
                          /\ rh[r].src \in Nodes \cup {AnySource} /\ rh[r].msg \in 0..Len(posted[r[1]])
        BY <3>2, <3>3 DEF RecvHandle
      <3>6. \A n \in Nodes : /\ sq[n] \in Seq(SH) /\ rq[n] \in Seq(RH)
                             /\ chlock[n] \in Nodes \cup {NoNode}
                             /\ pc[n] \in Locations
                             /\ nsh[n] \in 0..MaxSends /\ nrh[n] \in 0..MaxRecvs
        BY DEF Good, Types, Bounded
      <3> QED  BY <3>4, <3>5, <3>6 DEF TypeOK, Bounded
    <2>2. PendIsQueued
      BY DEF Plain, Pending, PendIsQueued
    <2>3. LegalQueues
      <3>1. ASSUME NEW n \in Nodes, NEW i \in 1..Len(sq[n])
            PROVE  sh[sq[n][i]].live /\ sh[sq[n][i]].stat \in PEND
        <4>1. sq[n][i] \in SH /\ InQueue(sq[n], sq[n][i])
          BY ElementOfSeq DEF Good, Types, InQueue
        <4> QED  BY <4>1 DEF Plain, Pending, Kept
      <3>2. ASSUME NEW n \in Nodes, NEW i \in 1..Len(rq[n])
            PROVE  rh[rq[n][i]].live /\ rh[rq[n][i]].stat \in PEND
        <4>1. rq[n][i] \in RH /\ InQueue(rq[n], rq[n][i])
          BY ElementOfSeq DEF Good, Types, InQueue
        <4> QED  BY <4>1 DEF Plain, Pending
      <3> QED  BY <3>1, <3>2 DEF LegalQueues
    <2>4. NoFault /\ NoLostWakeup
      BY DEF Good
    <2>5. NoLeak
      BY InvIsSound DEF Inv, RequestsSound
    <2> QED  BY <2>1, <2>2, <2>3, <2>4, <2>5 DEF HandlesSound
  <1> QED  BY <1>1, CarefulInvariance, PTL

\* ... and what a receiver copies is what the sender had in its buffer when it called,
\* although a buffered or standard send may have returned long before: it leaves only what
\* is in the system buffer (intra_sr.c:521-800).
THEOREM DataIsIntact ==
  ASSUME Careful
  PROVE  Safe => []DataIntact
  <1>1. Good /\ Plain /\ Bounded => DataIntact
    BY DEF Plain
  <1> QED  BY <1>1, CarefulInvariance, PTL

----------------------------------------------------------------------------
(* The order of messages. *)

\* The pair of a message and a receive that node t has brought together and not yet
\* recorded.
Taking(t) == pc[t] \in {"fill_rh", "fill_sh"}
TakenSend(t) == IF pc[t] = "fill_rh" THEN cur[t] ELSE found[t]
TakenRecv(t) == IF pc[t] = "fill_rh" THEN found[t] ELSE cur[t]

\* The number of a handle's message (receive), as the histories name it.
MsgOf(h) == <<h[1], sh[h].msg>>
RecvOf(r) == <<r[1], rh[r].msg>>

\* Queues are in the order of the starts.
QueuesInOrder ==
  \A n \in Nodes :
    /\ \A i, j \in 1..Len(sq[n]) :
         i < j /\ sq[n][i][1] = sq[n][j][1] => sh[sq[n][i]].msg < sh[sq[n][j]].msg
    /\ \A i, j \in 1..Len(rq[n]) : i < j => rh[rq[n][i]].msg < rh[rq[n][j]].msg

\* What has been started is in a queue, being filled or received.
Accounted ==
  /\ \A s \in Nodes : \A k \in 1..Len(sent[s]) :
       \/ \E m \in matched : m.msg = <<s, k>>
       \/ \E t \in Nodes : Taking(t) /\ MsgOf(TakenSend(t)) = <<s, k>>
       \/ \E n \in Nodes, h \in SH : InQueue(sq[n], h) /\ MsgOf(h) = <<s, k>>
  /\ \A d \in Nodes : \A k \in 1..Len(posted[d]) :
       \/ \E m \in matched : m.recv = <<d, k>>
       \/ \E t \in Nodes : Taking(t) /\ RecvOf(TakenRecv(t)) = <<d, k>>
       \/ \E r \in RH : InQueue(rq[d], r) /\ RecvOf(r) = <<d, k>>

\* A message msg that receive recv gets has passed over no message that is still there and
\* would have done, and the receive over no receive.
PassedSend(msg, recv, h) ==
  h[1] = msg[1] /\ sh[h].dest = recv[1] /\ sh[h].msg < msg[2] =>
    ~Fits(posted[recv[1]][recv[2]], h[1], sh[h].tag)
PassedRecv(msg, recv, r) ==
  r[1] = recv[1] /\ rh[r].msg < recv[2] =>
    ~Fits(posted[recv[1]][rh[r].msg], msg[1], sent[msg[1]][msg[2]].tag)

NonePassed ==
  /\ \A m \in matched :
       /\ \A n \in Nodes, h \in SH : InQueue(sq[n], h) => PassedSend(m.msg, m.recv, h)
       /\ \A n \in Nodes, r \in RH : InQueue(rq[n], r) => PassedRecv(m.msg, m.recv, r)
       /\ \A t \in Nodes : Taking(t) => /\ PassedSend(m.msg, m.recv, TakenSend(t))
                                        /\ PassedRecv(m.msg, m.recv, TakenRecv(t))
  /\ \A t \in Nodes : Taking(t) =>
       /\ \A n \in Nodes, h \in SH :
            InQueue(sq[n], h) => PassedSend(MsgOf(TakenSend(t)), RecvOf(TakenRecv(t)), h)
       /\ \A n \in Nodes, r \in RH :
            InQueue(rq[n], r) => PassedRecv(MsgOf(TakenSend(t)), RecvOf(TakenRecv(t)), r)

\* Of two messages that are alike the earlier one has gone to an earlier receive.
Earlier(msg, recv) ==
  \A k \in 1..(msg[2] - 1) : sent[msg[1]][k] = sent[msg[1]][msg[2]] =>
    \E e \in matched : e.msg = <<msg[1], k>> /\ e.recv[2] < recv[2]
TakenInOrder == \A t \in Nodes : Taking(t) => Earlier(MsgOf(TakenSend(t)), RecvOf(TakenRecv(t)))

Ordered == QueuesInOrder /\ Accounted /\ NonePassed /\ TakenInOrder /\ NonOvertaking

\* What is known of the pair a node has taken.
LEMMA TakenIs ==
  ASSUME Good, Plain, NEW t \in Nodes, Taking(t)
  PROVE  /\ TakenSend(t) \in SH /\ TakenRecv(t) \in RH
         /\ sh[TakenSend(t)].stat \notin {"NONE", "CREATE", "FREE"} /\ rh[TakenRecv(t)].stat # "NONE"
         /\ chlock[TakenRecv(t)[1]] = t /\ sh[TakenSend(t)].dest = TakenRecv(t)[1]
         /\ TakenSend(t)[1] \in Nodes /\ TakenRecv(t)[1] \in Nodes
         /\ FreshSend(TakenSend(t)) /\ FreshRecv(TakenRecv(t))
  <1>1. CASE pc[t] = "fill_rh"
    <2>1. TakenSend(t) = cur[t] /\ TakenRecv(t) = found[t]
      BY <1>1 DEF TakenSend, TakenRecv
    <2>2. cur[t] \in SH /\ found[t] \in RH
      BY <1>1 DEF Good, Working, SendLocs, Filling, FillingRecv
    <2>3. /\ sh[cur[t]].stat = "MATCH" /\ rh[found[t]].stat # "NONE" /\ chlock[found[t][1]] = t
          /\ sh[cur[t]].dest = found[t][1]
      BY <1>1 DEF Good, Filling, FillingRecv
    <2>4. FreshSend(cur[t]) /\ FreshRecv(found[t])
      BY <1>1 DEF Good, Fresh
    <2>5. cur[t][1] \in Nodes /\ found[t][1] \in Nodes
      BY <2>2 DEF SH, RH
    <2> QED  BY <2>1, <2>2, <2>3, <2>4, <2>5
  <1>2. CASE pc[t] = "fill_sh"
    <2>1. TakenSend(t) = found[t] /\ TakenRecv(t) = cur[t]
      BY <1>2 DEF TakenSend, TakenRecv
    <2>2. cur[t] \in RH /\ cur[t][1] = t /\ found[t] \in SH
      BY <1>2 DEF Good, Working, RecvLocs, Filling, FillingSend
    <2>3. rh[cur[t]].stat = "CREATE" /\ chlock[t] = t /\ sh[found[t]].dest = t
      BY <1>2 DEF Good, Filling, FillingSend
    <2>4. sh[found[t]].stat \notin {"NONE", "CREATE", "FREE"}
      BY <1>2 DEF Plain, Pending, PEND
    <2>5. FreshSend(found[t]) /\ FreshRecv(cur[t])
      BY <1>2 DEF Good, Fresh
    <2>6. found[t][1] \in Nodes
      BY <2>2 DEF SH
    <2> QED  BY <2>1, <2>2, <2>3, <2>4, <2>5, <2>6
  <1> QED  BY <1>1, <1>2 DEF Taking

\* What is known of a handle in a queue.
LEMMA QueuedIs ==
  ASSUME Good, Plain, NEW n \in Nodes
  PROVE  /\ \A h \in SH : InQueue(sq[n], h) =>
              /\ sh[h].stat \in PEND /\ sh[h].stat \notin {"NONE", "CREATE", "FREE"}
              /\ sh[h].dest = n /\ FreshSend(h) /\ h[1] \in Nodes
         /\ \A r \in RH : InQueue(rq[n], r) =>
              /\ rh[r].stat \in PEND /\ rh[r].stat \notin {"NONE", "CREATE", "FREE"}
              /\ r[1] = n /\ FreshRecv(r)
         /\ \A i \in 1..Len(sq[n]) : sq[n][i] \in SH /\ InQueue(sq[n], sq[n][i])
         /\ \A i \in 1..Len(rq[n]) : rq[n][i] \in RH /\ InQueue(rq[n], rq[n][i])
  <1>1. \A h \in SH : InQueue(sq[n], h) => sh[h].stat \in PEND /\ sh[h].dest = n
    BY DEF Plain, Pending, Good, Queues
  <1>2. \A r \in RH : InQueue(rq[n], r) => rh[r].stat \in PEND /\ r[1] = n
    BY DEF Plain, Pending, Good, Queues
  <1>3. \A h \in SH : InQueue(sq[n], h) => FreshSend(h)
    BY <1>1 DEF Good, Fresh
  <1>4. \A r \in RH : InQueue(rq[n], r) => FreshRecv(r)
    BY <1>2 DEF Good, Fresh
  <1>5. \A x \in PEND : x \notin {"NONE", "CREATE", "FREE"}
    BY DEF PEND
  <1>6. \A h \in SH : h[1] \in Nodes
    BY DEF SH
  <1>7. \A i \in 1..Len(sq[n]) : sq[n][i] \in SH /\ InQueue(sq[n], sq[n][i])
    BY ElementOfSeq DEF Good, Types, InQueue
  <1>8. \A i \in 1..Len(rq[n]) : rq[n][i] \in RH /\ InQueue(rq[n], rq[n][i])
    BY ElementOfSeq DEF Good, Types, InQueue
  <1> QED  BY <1>1, <1>2, <1>3, <1>4, <1>5, <1>6, <1>7, <1>8

\* The histories only grow, and a handle keeps what it says of its start.
HistoryGrows ==
  /\ \A n \in Nodes : \A k \in 1..Len(sent[n]) : k \in 1..Len(sent'[n]) /\ sent'[n][k] = sent[n][k]
  /\ \A n \in Nodes : \A k \in 1..Len(posted[n]) : k \in 1..Len(posted'[n]) /\ posted'[n][k] = posted[n][k]
SameSend(h) == sh'[h].msg = sh[h].msg /\ sh'[h].dest = sh[h].dest /\ sh'[h].tag = sh[h].tag
SameRecv(r) == rh'[r].msg = rh[r].msg

InHistory(msg, recv) ==
  /\ msg[1] \in Nodes /\ msg[2] \in 1..Len(sent[msg[1]])
  /\ recv[1] \in Nodes /\ recv[2] \in 1..Len(posted[recv[1]])

\* What has not been passed over stays so while the histories grow.
LEMMA PassedKept ==
  ASSUME HistoryGrows, NEW msg, NEW recv, InHistory(msg, recv)
  PROVE  /\ \A h \in SH : SameSend(h) /\ PassedSend(msg, recv, h) => PassedSend(msg, recv, h)'
         /\ \A r \in RH : SameRecv(r) /\ rh[r].msg \in 1..Len(posted[r[1]]) /\ PassedRecv(msg, recv, r) =>
                            PassedRecv(msg, recv, r)'
  <1>1. posted'[recv[1]][recv[2]] = posted[recv[1]][recv[2]] /\ sent'[msg[1]][msg[2]] = sent[msg[1]][msg[2]]
    BY DEF HistoryGrows, InHistory
  <1>2. ASSUME NEW h \in SH, SameSend(h), PassedSend(msg, recv, h) PROVE PassedSend(msg, recv, h)'
    BY <1>1, <1>2 DEF SameSend, PassedSend, Fits
  <1>3. ASSUME NEW r \in RH, SameRecv(r), rh[r].msg \in 1..Len(posted[r[1]]), PassedRecv(msg, recv, r)
        PROVE  PassedRecv(msg, recv, r)'
    <2>1. r[1] = recv[1] => posted'[recv[1]][rh[r].msg] = posted[recv[1]][rh[r].msg]
      BY <1>3 DEF HistoryGrows, InHistory
    <2> QED  BY <1>1, <1>3, <2>1 DEF SameRecv, PassedRecv, Fits
  <1> QED  BY <1>2, <1>3

\* ... and what has gone before.
LEMMA EarlierKept ==
  ASSUME Types, HistoryGrows, matched \subseteq matched', NEW msg, NEW recv,
         msg[1] \in Nodes, msg[2] \in 1..Len(sent[msg[1]]), Earlier(msg, recv)
  PROVE  Earlier(msg, recv)'
  <1> SUFFICES ASSUME NEW k \in 1..(msg[2] - 1), sent'[msg[1]][k] = sent'[msg[1]][msg[2]]
               PROVE  \E e \in matched' : e.msg = <<msg[1], k>> /\ e.recv[2] < recv[2]
    BY DEF Earlier
  <1>1. Len(sent[msg[1]]) \in Nat
    BY DEF Types
  <1>2. k \in 1..Len(sent[msg[1]])
    BY <1>1
  <1>3. sent[msg[1]][k] = sent[msg[1]][msg[2]]
    BY <1>2 DEF HistoryGrows
  <1> QED  BY <1>3 DEF Earlier

\* What has been recorded is in the histories, and so is what has been taken.
LEMMA AllInHistory ==
  ASSUME Good, Plain
  PROVE  /\ \A m \in matched : InHistory(m.msg, m.recv)
         /\ \A t \in Nodes : Taking(t) => InHistory(MsgOf(TakenSend(t)), RecvOf(TakenRecv(t)))
  <1>1. ASSUME NEW m \in matched PROVE InHistory(m.msg, m.recv)
    <2>1. m.msg \in Handles /\ m.recv \in Handles
      BY DEF Good, Types
    <2>2. m.msg[2] \in 1..Len(sent[m.msg[1]]) /\ m.recv[2] \in 1..Len(posted[m.recv[1]])
      BY DEF Good, Matched
    <2> QED  BY <2>1, <2>2 DEF InHistory, Handles
  <1>2. ASSUME NEW t \in Nodes, Taking(t) PROVE InHistory(MsgOf(TakenSend(t)), RecvOf(TakenRecv(t)))
    BY <1>2, TakenIs DEF InHistory, MsgOf, RecvOf, FreshSend, FreshRecv
  <1> QED  BY <1>1, <1>2

\* ... and the order of what has been received.
LEMMA NonOvertakingKept ==
  ASSUME Good, Plain, HistoryGrows, matched' = matched, NonOvertaking
  PROVE  NonOvertaking'
  <1>1. \A m \in matched : Earlier(m.msg, m.recv)
    BY DEF NonOvertaking, Earlier
  <1>2. \A m \in matched : m.msg[1] \in Nodes /\ m.msg[2] \in 1..Len(sent[m.msg[1]])
    BY AllInHistory DEF InHistory
  <1>3. Types
    BY DEF Good
  <1>4. ASSUME NEW m \in matched PROVE Earlier(m.msg, m.recv)'
    BY <1>1, <1>2, <1>3, EarlierKept
  <1> QED  BY <1>4 DEF NonOvertaking, Earlier

\* A step that neither starts nor fills.
LEMMA OrderKept ==
  ASSUME Good, Plain, Ordered, UNCHANGED <<sq, rq, sent, posted, matched>>,
         \A u \in Nodes : /\ Taking(u)' <=> Taking(u)
                          /\ Taking(u) => pc'[u] = pc[u] /\ cur'[u] = cur[u] /\ found'[u] = found[u],
         \A h \in SH : sh[h].stat # "NONE" => SameSend(h),
         \A r \in RH : rh[r].stat # "NONE" => SameRecv(r)
  PROVE  Ordered'
  <1>1. HistoryGrows
    BY DEF HistoryGrows
  <1>2. \A n \in Nodes, h \in SH : InQueue(sq[n], h) => SameSend(h)
    BY QueuedIs
  <1>3. \A n \in Nodes, r \in RH : InQueue(rq[n], r) => SameRecv(r) /\ rh[r].msg \in 1..Len(posted[r[1]])
    <2>1. \A n \in Nodes, r \in RH : InQueue(rq[n], r) => rh[r].stat # "NONE" /\ FreshRecv(r)
      BY QueuedIs
    <2> QED  BY <2>1 DEF FreshRecv
  <1>4. \A u \in Nodes : Taking(u) => /\ TakenSend(u)' = TakenSend(u) /\ TakenRecv(u)' = TakenRecv(u)
    BY DEF TakenSend, TakenRecv
  <1>5. \A u \in Nodes : Taking(u) =>
          /\ TakenSend(u) \in SH /\ SameSend(TakenSend(u)) /\ TakenRecv(u) \in RH
          /\ SameRecv(TakenRecv(u)) /\ rh[TakenRecv(u)].msg \in 1..Len(posted[TakenRecv(u)[1]])
    BY TakenIs DEF FreshRecv
  <1>6. QueuesInOrder'
    <2>1. \A n \in Nodes : \A i \in 1..Len(sq[n]) : sh'[sq[n][i]].msg = sh[sq[n][i]].msg
      BY <1>2, QueuedIs DEF SameSend
    <2>2. \A n \in Nodes : \A i \in 1..Len(rq[n]) : rh'[rq[n][i]].msg = rh[rq[n][i]].msg
      BY <1>3, QueuedIs DEF SameRecv
    <2> QED  BY <2>1, <2>2 DEF Ordered, QueuesInOrder
  <1>7. \A u \in Nodes : Taking(u) => /\ MsgOf(TakenSend(u))' = MsgOf(TakenSend(u))
                                      /\ RecvOf(TakenRecv(u))' = RecvOf(TakenRecv(u))
    BY <1>4, <1>5 DEF MsgOf, RecvOf, SameSend, SameRecv
  <1>8. Accounted'
    <2>1. ASSUME NEW s \in Nodes, NEW k \in 1..Len(sent[s])
          PROVE  \/ \E m \in matched : m.msg = <<s, k>>
                 \/ \E t \in Nodes : Taking(t)' /\ MsgOf(TakenSend(t))' = <<s, k>>
                 \/ \E n \in Nodes, h \in SH : InQueue(sq[n], h) /\ MsgOf(h)' = <<s, k>>
      <3>1. CASE \E m \in matched : m.msg = <<s, k>>
        BY <3>1
      <3>2. CASE \E t \in Nodes : Taking(t) /\ MsgOf(TakenSend(t)) = <<s, k>>
        BY <1>7, <3>2
      <3>3. ASSUME NEW n \in Nodes, NEW h \in SH, InQueue(sq[n], h), MsgOf(h) = <<s, k>>
            PROVE  InQueue(sq[n], h) /\ MsgOf(h)' = <<s, k>>
        BY <1>2, <3>3 DEF SameSend, MsgOf
      <3>4. \/ \E m \in matched : m.msg = <<s, k>>
            \/ \E t \in Nodes : Taking(t) /\ MsgOf(TakenSend(t)) = <<s, k>>
            \/ \E n \in Nodes, h \in SH : InQueue(sq[n], h) /\ MsgOf(h) = <<s, k>>
        BY DEF Ordered, Accounted
      <3> QED  BY <3>1, <3>2, <3>3, <3>4
    <2>2. ASSUME NEW d \in Nodes, NEW k \in 1..Len(posted[d])
          PROVE  \/ \E m \in matched : m.recv = <<d, k>>
                 \/ \E t \in Nodes : Taking(t)' /\ RecvOf(TakenRecv(t))' = <<d, k>>
                 \/ \E r \in RH : InQueue(rq[d], r) /\ RecvOf(r)' = <<d, k>>
      <3>1. CASE \E m \in matched : m.recv = <<d, k>>
        BY <3>1
      <3>2. CASE \E t \in Nodes : Taking(t) /\ RecvOf(TakenRecv(t)) = <<d, k>>
        BY <1>7, <3>2
      <3>3. ASSUME NEW r \in RH, InQueue(rq[d], r), RecvOf(r) = <<d, k>>
            PROVE  InQueue(rq[d], r) /\ RecvOf(r)' = <<d, k>>
        BY <1>3, <3>3 DEF SameRecv, RecvOf
      <3> QED  BY <3>1, <3>2, <3>3 DEF Ordered, Accounted
    <2> QED  BY <2>1, <2>2 DEF Accounted
  <1>9. NonePassed'
    <2>1. NonePassed
      BY DEF Ordered
    <2>2. ASSUME NEW m \in matched
          PROVE  /\ \A n \in Nodes, h \in SH : InQueue(sq[n], h) => PassedSend(m.msg, m.recv, h)'
                 /\ \A n \in Nodes, r \in RH : InQueue(rq[n], r) => PassedRecv(m.msg, m.recv, r)'
      <3>1. InHistory(m.msg, m.recv)
        BY AllInHistory
      <3> QED  BY <1>1, <1>2, <1>3, <2>1, <3>1, PassedKept DEF NonePassed
    <2>3. ASSUME NEW m \in matched, NEW u \in Nodes, Taking(u)
          PROVE  (PassedSend(m.msg, m.recv, TakenSend(u)) /\ PassedRecv(m.msg, m.recv, TakenRecv(u)))'
      <3>1. PICK h \in SH, r \in RH : h = TakenSend(u) /\ r = TakenRecv(u)
        BY <1>5, <2>3
      <3>2. InHistory(m.msg, m.recv)
        BY AllInHistory
      <3>3. PassedSend(m.msg, m.recv, h) /\ PassedRecv(m.msg, m.recv, r)
        BY <2>1, <2>3, <3>1 DEF NonePassed
      <3>4. PassedSend(m.msg, m.recv, h)' /\ PassedRecv(m.msg, m.recv, r)'
        BY <1>1, <1>5, <2>3, <3>1, <3>2, <3>3, PassedKept
      <3>5. h = TakenSend(u)' /\ r = TakenRecv(u)'
        BY <1>4, <2>3, <3>1
      <3> QED  BY <3>4, <3>5
    <2>4. ASSUME NEW u \in Nodes, Taking(u)
          PROVE  /\ \A n \in Nodes, h \in SH : InQueue(sq[n], h) =>
                      PassedSend(MsgOf(TakenSend(u)), RecvOf(TakenRecv(u)), h)'
                 /\ \A n \in Nodes, r \in RH : InQueue(rq[n], r) =>
                      PassedRecv(MsgOf(TakenSend(u)), RecvOf(TakenRecv(u)), r)'
      <3>1. PICK msg, recv : msg = MsgOf(TakenSend(u)) /\ recv = RecvOf(TakenRecv(u))
        OBVIOUS
      <3>2. InHistory(msg, recv)
        BY <2>4, <3>1, AllInHistory
      <3>3. /\ \A n \in Nodes, h \in SH : InQueue(sq[n], h) => PassedSend(msg, recv, h)
            /\ \A n \in Nodes, r \in RH : InQueue(rq[n], r) => PassedRecv(msg, recv, r)
        BY <2>1, <2>4, <3>1 DEF NonePassed
      <3>4. /\ \A n \in Nodes, h \in SH : InQueue(sq[n], h) => PassedSend(msg, recv, h)'
            /\ \A n \in Nodes, r \in RH : InQueue(rq[n], r) => PassedRecv(msg, recv, r)'
        BY <1>1, <1>2, <1>3, <3>2, <3>3, PassedKept
      <3>5. msg = MsgOf(TakenSend(u))' /\ recv = RecvOf(TakenRecv(u))'
        BY <1>7, <2>4, <3>1
      <3> QED  BY <3>4, <3>5
    <2> QED  BY <2>2, <2>3, <2>4 DEF NonePassed
  <1>10. TakenInOrder'
    <2> SUFFICES ASSUME NEW u \in Nodes, Taking(u)
                 PROVE  Earlier(MsgOf(TakenSend(u)), RecvOf(TakenRecv(u)))'
      BY DEF TakenInOrder
    <2>1. PICK msg, recv : msg = MsgOf(TakenSend(u)) /\ recv = RecvOf(TakenRecv(u))
      OBVIOUS
    <2>2. InHistory(msg, recv) /\ Types
      BY <2>1, AllInHistory DEF Good
    <2>3. Earlier(msg, recv)'
      BY <1>1, <2>1, <2>2, EarlierKept DEF InHistory, Ordered, TakenInOrder
    <2>4. msg = MsgOf(TakenSend(u))' /\ recv = RecvOf(TakenRecv(u))'
      BY <1>7, <2>1
    <2> QED  BY <2>3, <2>4
  <1>11. NonOvertaking'
    BY <1>1, NonOvertakingKept DEF Ordered
  <1> QED  BY <1>6, <1>8, <1>9, <1>10, <1>11 DEF Ordered

\* The pair a node has taken is recorded.
LEMMA OrderFilled ==
  ASSUME Good, Plain, Ordered, NEW t \in Nodes, Taking(t), ~Taking(t)', NEW data,
         UNCHANGED <<sq, rq, cur, found, sent, posted>>,
         matched' = matched \cup {[msg |-> MsgOf(TakenSend(t)), recv |-> RecvOf(TakenRecv(t)),
                                   data |-> data]},
         \A u \in Nodes \ {t} : (Taking(u)' <=> Taking(u)) /\ (Taking(u) => pc'[u] = pc[u]),
         \A h \in SH : SameSend(h), \A r \in RH : SameRecv(r)
  PROVE  Ordered'
  <1>1. HistoryGrows /\ matched \subseteq matched'
    BY DEF HistoryGrows
  <1>2. PICK msg, recv : msg = MsgOf(TakenSend(t)) /\ recv = RecvOf(TakenRecv(t))
    OBVIOUS
  <1>3. PICK new : new = [msg |-> msg, recv |-> recv, data |-> data]
    OBVIOUS
  <1>4. matched' = matched \cup {new} /\ new.msg = msg /\ new.recv = recv
    BY <1>2, <1>3
  <1>5. \A n \in Nodes, r \in RH : InQueue(rq[n], r) => rh[r].msg \in 1..Len(posted[r[1]])
    <2>1. \A n \in Nodes, r \in RH : InQueue(rq[n], r) => FreshRecv(r)
      BY QueuedIs
    <2> QED  BY <2>1 DEF FreshRecv
  <1>6. \A u \in Nodes \ {t} : Taking(u) => TakenSend(u)' = TakenSend(u) /\ TakenRecv(u)' = TakenRecv(u)
    BY DEF TakenSend, TakenRecv
  <1>7. \A u \in Nodes : Taking(u) => TakenSend(u) \in SH /\ TakenRecv(u) \in RH
    BY TakenIs
  <1>8. \A u \in Nodes : Taking(u) => rh[TakenRecv(u)].msg \in 1..Len(posted[TakenRecv(u)[1]])
    BY TakenIs DEF FreshRecv
  <1>9. \A u \in Nodes \ {t} : Taking(u) => /\ MsgOf(TakenSend(u))' = MsgOf(TakenSend(u))
                                            /\ RecvOf(TakenRecv(u))' = RecvOf(TakenRecv(u))
    BY <1>6, <1>7 DEF MsgOf, RecvOf, SameSend, SameRecv
  <1>10. (\A m \in matched : InHistory(m.msg, m.recv)) /\ InHistory(msg, recv)
    BY <1>2, AllInHistory
  <1>11. QueuesInOrder'
    <2>1. \A n \in Nodes : \A i \in 1..Len(sq[n]) : sh'[sq[n][i]].msg = sh[sq[n][i]].msg
      BY QueuedIs DEF SameSend
    <2>2. \A n \in Nodes : \A i \in 1..Len(rq[n]) : rh'[rq[n][i]].msg = rh[rq[n][i]].msg
      BY QueuedIs DEF SameRecv
    <2> QED  BY <2>1, <2>2 DEF Ordered, QueuesInOrder
  <1>12. Accounted'
    <2>1. ASSUME NEW s \in Nodes, NEW k \in 1..Len(sent[s])
          PROVE  \/ \E m \in matched' : m.msg = <<s, k>>
                 \/ \E u \in Nodes : Taking(u)' /\ MsgOf(TakenSend(u))' = <<s, k>>
                 \/ \E n \in Nodes, h \in SH : InQueue(sq[n], h) /\ MsgOf(h)' = <<s, k>>
      <3>1. \/ \E m \in matched : m.msg = <<s, k>>
            \/ \E u \in Nodes : Taking(u) /\ MsgOf(TakenSend(u)) = <<s, k>>
            \/ \E n \in Nodes, h \in SH : InQueue(sq[n], h) /\ MsgOf(h) = <<s, k>>
        BY DEF Ordered, Accounted
      <3>2. ASSUME NEW u \in Nodes, Taking(u), MsgOf(TakenSend(u)) = <<s, k>>
            PROVE  \/ \E m \in matched' : m.msg = <<s, k>>
                   \/ Taking(u)' /\ MsgOf(TakenSend(u))' = <<s, k>>
        <4>1. CASE u = t
          BY <1>2, <1>4, <3>2, <4>1
        <4>2. CASE u # t
          BY <1>9, <3>2, <4>2
        <4> QED  BY <4>1, <4>2
      <3>3. \A h \in SH : MsgOf(h)' = MsgOf(h)
        BY DEF MsgOf, SameSend
      <3> QED  BY <1>4, <3>1, <3>2, <3>3
    <2>2. ASSUME NEW d \in Nodes, NEW k \in 1..Len(posted[d])
          PROVE  \/ \E m \in matched' : m.recv = <<d, k>>
                 \/ \E u \in Nodes : Taking(u)' /\ RecvOf(TakenRecv(u))' = <<d, k>>
                 \/ \E r \in RH : InQueue(rq[d], r) /\ RecvOf(r)' = <<d, k>>
      <3>1. \/ \E m \in matched : m.recv = <<d, k>>
            \/ \E u \in Nodes : Taking(u) /\ RecvOf(TakenRecv(u)) = <<d, k>>
            \/ \E r \in RH : InQueue(rq[d], r) /\ RecvOf(r) = <<d, k>>
        BY DEF Ordered, Accounted
      <3>2. ASSUME NEW u \in Nodes, Taking(u), RecvOf(TakenRecv(u)) = <<d, k>>
            PROVE  \/ \E m \in matched' : m.recv = <<d, k>>
                   \/ Taking(u)' /\ RecvOf(TakenRecv(u))' = <<d, k>>
        <4>1. CASE u = t
          BY <1>2, <1>4, <3>2, <4>1
        <4>2. CASE u # t
          BY <1>9, <3>2, <4>2
        <4> QED  BY <4>1, <4>2
      <3>3. \A r \in RH : RecvOf(r)' = RecvOf(r)
        BY DEF RecvOf, SameRecv
      <3> QED  BY <1>4, <3>1, <3>2, <3>3
    <2> QED  BY <2>1, <2>2 DEF Accounted
  <1>13. NonePassed'
    <2>1. NonePassed
      BY DEF Ordered
    <2>2. ASSUME NEW m \in matched'
          PROVE  /\ \A n \in Nodes, h \in SH : InQueue(sq[n], h) => PassedSend(m.msg, m.recv, h)'
                 /\ \A n \in Nodes, r \in RH : InQueue(rq[n], r) => PassedRecv(m.msg, m.recv, r)'
      <3>1. InHistory(m.msg, m.recv)
        BY <1>4, <1>10, <2>2
      <3>2. /\ \A n \in Nodes, h \in SH : InQueue(sq[n], h) => PassedSend(m.msg, m.recv, h)
            /\ \A n \in Nodes, r \in RH : InQueue(rq[n], r) => PassedRecv(m.msg, m.recv, r)
        BY <1>2, <1>4, <2>1, <2>2 DEF NonePassed
      <3> QED  BY <1>1, <1>5, <3>1, <3>2, PassedKept
    <2>3. ASSUME NEW m \in matched', NEW u \in Nodes \ {t}, Taking(u)
          PROVE  (PassedSend(m.msg, m.recv, TakenSend(u)) /\ PassedRecv(m.msg, m.recv, TakenRecv(u)))'
      <3>1. PICK h \in SH, r \in RH : h = TakenSend(u) /\ r = TakenRecv(u)
        BY <1>7, <2>3
      <3>2. InHistory(m.msg, m.recv)
        BY <1>4, <1>10, <2>3
      <3>3. PassedSend(m.msg, m.recv, h) /\ PassedRecv(m.msg, m.recv, r)
        <4>1. CASE m \in matched
          BY <2>1, <2>3, <3>1, <4>1 DEF NonePassed
        <4>2. CASE m = new
          <5>1. chlock[r[1]] = u /\ sh[h].dest = r[1]
            BY <2>3, <3>1, TakenIs
          <5>2. chlock[recv[1]] = t
            BY <1>2, TakenIs DEF RecvOf
          <5>3. r[1] # recv[1]
            BY <2>3, <5>1, <5>2
          <5> QED  BY <1>4, <4>2, <5>1, <5>3 DEF PassedSend, PassedRecv
        <4> QED  BY <1>4, <2>3, <4>1, <4>2
      <3>4. PassedSend(m.msg, m.recv, h)' /\ PassedRecv(m.msg, m.recv, r)'
        BY <1>1, <1>8, <2>3, <3>1, <3>2, <3>3, PassedKept
      <3>5. h = TakenSend(u)' /\ r = TakenRecv(u)'
        BY <1>6, <2>3, <3>1
      <3> QED  BY <3>4, <3>5
    <2>4. ASSUME NEW u \in Nodes \ {t}, Taking(u)
          PROVE  /\ \A n \in Nodes, h \in SH : InQueue(sq[n], h) =>
                      PassedSend(MsgOf(TakenSend(u)), RecvOf(TakenRecv(u)), h)'
                 /\ \A n \in Nodes, r \in RH : InQueue(rq[n], r) =>
                      PassedRecv(MsgOf(TakenSend(u)), RecvOf(TakenRecv(u)), r)'
      <3>1. PICK x, y : x = MsgOf(TakenSend(u)) /\ y = RecvOf(TakenRecv(u))
        OBVIOUS
      <3>2. InHistory(x, y)
        BY <2>4, <3>1, AllInHistory
      <3>3. /\ \A n \in Nodes, h \in SH : InQueue(sq[n], h) => PassedSend(x, y, h)
            /\ \A n \in Nodes, r \in RH : InQueue(rq[n], r) => PassedRecv(x, y, r)
        BY <2>1, <2>4, <3>1 DEF NonePassed
      <3>4. /\ \A n \in Nodes, h \in SH : InQueue(sq[n], h) => PassedSend(x, y, h)'
            /\ \A n \in Nodes, r \in RH : InQueue(rq[n], r) => PassedRecv(x, y, r)'
        BY <1>1, <1>5, <3>2, <3>3, PassedKept
      <3>5. x = MsgOf(TakenSend(u))' /\ y = RecvOf(TakenRecv(u))'
        BY <1>9, <2>4, <3>1
      <3> QED  BY <3>4, <3>5
    <2>5. \A u \in Nodes : Taking(u)' => u \in Nodes \ {t} /\ Taking(u)
      OBVIOUS
    <2> QED  BY <2>2, <2>3, <2>4, <2>5 DEF NonePassed
  <1>14. TakenInOrder'
    <2> SUFFICES ASSUME NEW u \in Nodes \ {t}, Taking(u)
                 PROVE  Earlier(MsgOf(TakenSend(u)), RecvOf(TakenRecv(u)))'
      BY DEF TakenInOrder
    <2>1. PICK x, y : x = MsgOf(TakenSend(u)) /\ y = RecvOf(TakenRecv(u))
      OBVIOUS
    <2>2. InHistory(x, y) /\ Types
      BY <2>1, AllInHistory DEF Good
    <2>3. Earlier(x, y)'
      BY <1>1, <2>1, <2>2, EarlierKept DEF InHistory, Ordered, TakenInOrder
    <2>4. x = MsgOf(TakenSend(u))' /\ y = RecvOf(TakenRecv(u))'
      BY <1>9, <2>1
    <2> QED  BY <2>3, <2>4
  <1>15. NonOvertaking'
    <2>1. ASSUME NEW m \in matched' PROVE Earlier(m.msg, m.recv)'
      <3>2. Earlier(m.msg, m.recv)
        <4>1. CASE m \in matched
          BY <4>1 DEF Ordered, NonOvertaking, Earlier
        <4>2. CASE m = new
          BY <1>2, <1>4, <4>2 DEF Ordered, TakenInOrder
        <4> QED  BY <1>4, <2>1, <4>1, <4>2
      <3>3. m.msg[1] \in Nodes /\ m.msg[2] \in 1..Len(sent[m.msg[1]])
        BY <1>4, <1>10, <2>1 DEF InHistory
      <3>4. Types
        BY DEF Good
      <3> QED  BY <1>1, <3>2, <3>3, <3>4, EarlierKept
    <2> QED  BY <2>1 DEF NonOvertaking, Earlier
  <1> QED  BY <1>11, <1>12, <1>13, <1>14, <1>15 DEF Ordered

\* A step that starts a request: what was queued or taken before says what it said, and
\* what is new has the next number of its node.
Undisturbed(t) ==
  /\ HistoryGrows /\ matched' = matched /\ ~Taking(t)
  /\ \A n \in Nodes, x \in SH : InQueue(sq[n], x) => SameSend(x)
  /\ \A n \in Nodes, r \in RH : InQueue(rq[n], r) => SameRecv(r)
  /\ \A u \in Nodes : u # t => (Taking(u)' <=> Taking(u))
  /\ \A u \in Nodes : Taking(u) => /\ TakenSend(u)' = TakenSend(u) /\ TakenRecv(u)' = TakenRecv(u)
                                   /\ SameSend(TakenSend(u)) /\ SameRecv(TakenRecv(u))
KnownSend(h) == sh'[h].msg = Len(sent[h[1]]) + 1 \/ \E n \in Nodes : InQueue(sq[n], h)
KnownRecv(r) == rh'[r].msg = Len(posted[r[1]]) + 1 \/ \E n \in Nodes : InQueue(rq[n], r)

\* The start of a request neglects nothing: every message and every receive that has been
\* started stays accounted for.
LEMMA AccountedStarts ==
  ASSUME Good, Plain, Ordered, NEW t \in Nodes, Undisturbed(t),
         \A s \in Nodes : \A k \in 1..Len(sent'[s]) :
           \/ k \in 1..Len(sent[s])
           \/ Taking(t)' /\ MsgOf(TakenSend(t))' = <<s, k>>
           \/ \E n \in Nodes, x \in SH : InQueue(sq'[n], x) /\ MsgOf(x)' = <<s, k>>,
         \A e \in Nodes : \A k \in 1..Len(posted'[e]) :
           \/ k \in 1..Len(posted[e])
           \/ Taking(t)' /\ RecvOf(TakenRecv(t))' = <<e, k>>
           \/ \E r \in RH : InQueue(rq'[e], r) /\ RecvOf(r)' = <<e, k>>,
         \A n \in Nodes, x \in SH : InQueue(sq[n], x) =>
           InQueue(sq'[n], x) \/ (Taking(t)' /\ TakenSend(t)' = x),
         \A n \in Nodes, r \in RH : InQueue(rq[n], r) =>
           InQueue(rq'[n], r) \/ (Taking(t)' /\ TakenRecv(t)' = r)
  PROVE  Accounted'
  <1>1. \A u \in Nodes : Taking(u) =>
          /\ Taking(u)' /\ MsgOf(TakenSend(u))' = MsgOf(TakenSend(u))
          /\ RecvOf(TakenRecv(u))' = RecvOf(TakenRecv(u))
    BY DEF Undisturbed, MsgOf, RecvOf, SameSend, SameRecv
  <1>2. ASSUME NEW s \in Nodes, NEW k \in 1..Len(sent'[s])
        PROVE  \/ \E m \in matched : m.msg = <<s, k>>
               \/ \E u \in Nodes : Taking(u)' /\ MsgOf(TakenSend(u))' = <<s, k>>
               \/ \E n \in Nodes, x \in SH : InQueue(sq'[n], x) /\ MsgOf(x)' = <<s, k>>
    <2>1. CASE k \in 1..Len(sent[s])
      <3>1. \/ \E m \in matched : m.msg = <<s, k>>
            \/ \E u \in Nodes : Taking(u) /\ MsgOf(TakenSend(u)) = <<s, k>>
            \/ \E n \in Nodes, x \in SH : InQueue(sq[n], x) /\ MsgOf(x) = <<s, k>>
        BY <2>1 DEF Ordered, Accounted
      <3>2. ASSUME NEW n \in Nodes, NEW x \in SH, InQueue(sq[n], x), MsgOf(x) = <<s, k>>
            PROVE  \/ InQueue(sq'[n], x) /\ MsgOf(x)' = <<s, k>>
                   \/ Taking(t)' /\ MsgOf(TakenSend(t))' = <<s, k>>
        <4>1. MsgOf(x)' = <<s, k>>
          BY <3>2 DEF Undisturbed, SameSend, MsgOf
        <4>2. CASE Taking(t)' /\ TakenSend(t)' = x
          BY <4>1, <4>2 DEF MsgOf
        <4> QED  BY <3>2, <4>1, <4>2
      <3> QED  BY <1>1, <3>1, <3>2
    <2> QED  BY <1>2, <2>1
  <1>3. ASSUME NEW e \in Nodes, NEW k \in 1..Len(posted'[e])
        PROVE  \/ \E m \in matched : m.recv = <<e, k>>
               \/ \E u \in Nodes : Taking(u)' /\ RecvOf(TakenRecv(u))' = <<e, k>>
               \/ \E r \in RH : InQueue(rq'[e], r) /\ RecvOf(r)' = <<e, k>>
    <2>1. CASE k \in 1..Len(posted[e])
      <3>1. \/ \E m \in matched : m.recv = <<e, k>>
            \/ \E u \in Nodes : Taking(u) /\ RecvOf(TakenRecv(u)) = <<e, k>>
            \/ \E r \in RH : InQueue(rq[e], r) /\ RecvOf(r) = <<e, k>>
        BY <2>1 DEF Ordered, Accounted
      <3>2. ASSUME NEW r \in RH, InQueue(rq[e], r), RecvOf(r) = <<e, k>>
            PROVE  \/ InQueue(rq'[e], r) /\ RecvOf(r)' = <<e, k>>
                   \/ Taking(t)' /\ RecvOf(TakenRecv(t))' = <<e, k>>
        <4>1. RecvOf(r)' = <<e, k>>
          BY <3>2 DEF Undisturbed, SameRecv, RecvOf
        <4>2. CASE Taking(t)' /\ TakenRecv(t)' = r
          BY <4>1, <4>2 DEF RecvOf
        <4> QED  BY <3>2, <4>1, <4>2
      <3> QED  BY <1>1, <3>1, <3>2
    <2> QED  BY <1>3, <2>1
  <1>4. matched' = matched
    BY DEF Undisturbed
  <1> QED  BY <1>2, <1>3, <1>4 DEF Accounted

\* A start keeps the order when the pair it takes, if it takes one, passes over nothing
\* and comes after its like.
LEMMA OrderStarts ==
  ASSUME Good, Plain, Ordered, NEW t \in Nodes, Undisturbed(t), QueuesInOrder', Accounted',
         \A n \in Nodes, x \in SH : InQueue(sq'[n], x) => KnownSend(x),
         \A n \in Nodes, r \in RH : InQueue(rq'[n], r) => KnownRecv(r),
         NEW g, NEW q,
         Taking(t)' =>
           /\ g \in SH /\ q \in RH /\ TakenSend(t)' = g /\ TakenRecv(t)' = q
           /\ KnownSend(g) /\ KnownRecv(q)
           /\ \A n \in Nodes, x \in SH : InQueue(sq'[n], x) => PassedSend(MsgOf(g), RecvOf(q), x)'
           /\ \A n \in Nodes, r \in RH : InQueue(rq'[n], r) => PassedRecv(MsgOf(g), RecvOf(q), r)'
           /\ Earlier(MsgOf(g), RecvOf(q))'
  PROVE  Ordered'
  <1>1. HistoryGrows /\ matched' = matched
    BY DEF Undisturbed
  <1>2. NonePassed
    BY DEF Ordered
  <1>3. ASSUME NEW x, NEW y, InHistory(x, y), NEW h \in SH, KnownSend(h),
               \A n \in Nodes : InQueue(sq[n], h) => PassedSend(x, y, h)
        PROVE  PassedSend(x, y, h)'
    <2>1. CASE sh'[h].msg = Len(sent[h[1]]) + 1
      <3>1. x[1] \in Nodes /\ x[2] \in 1..Len(sent[x[1]]) /\ Len(sent[x[1]]) \in Nat
        BY <1>3 DEF InHistory, Good, Types
      <3>2. h[1] = x[1] => ~(sh'[h].msg < x[2])
        BY <2>1, <3>1
      <3> QED  BY <3>2 DEF PassedSend
    <2>2. CASE \E n \in Nodes : InQueue(sq[n], h)
      <3>1. SameSend(h) /\ PassedSend(x, y, h)
        BY <1>3, <2>2 DEF Undisturbed
      <3> QED  BY <1>1, <1>3, <3>1, PassedKept
    <2> QED  BY <1>3, <2>1, <2>2 DEF KnownSend
  <1>4. ASSUME NEW x, NEW y, InHistory(x, y), NEW r \in RH, KnownRecv(r),
               \A n \in Nodes : InQueue(rq[n], r) => PassedRecv(x, y, r)
        PROVE  PassedRecv(x, y, r)'
    <2>1. CASE rh'[r].msg = Len(posted[r[1]]) + 1
      <3>1. y[1] \in Nodes /\ y[2] \in 1..Len(posted[y[1]]) /\ Len(posted[y[1]]) \in Nat
        BY <1>4 DEF InHistory, Good, Types
      <3>2. r[1] = y[1] => ~(rh'[r].msg < y[2])
        BY <2>1, <3>1
      <3> QED  BY <3>2 DEF PassedRecv
    <2>2. CASE \E n \in Nodes : InQueue(rq[n], r)
      <3>1. SameRecv(r) /\ PassedRecv(x, y, r) /\ FreshRecv(r)
        BY <1>4, <2>2, QueuedIs DEF Undisturbed
      <3>2. rh[r].msg \in 1..Len(posted[r[1]])
        BY <3>1 DEF FreshRecv
      <3> QED  BY <1>1, <1>4, <3>1, <3>2, PassedKept
    <2> QED  BY <1>4, <2>1, <2>2 DEF KnownRecv
  <1>5. (\A m \in matched : InHistory(m.msg, m.recv))
        /\ \A u \in Nodes : Taking(u) => InHistory(MsgOf(TakenSend(u)), RecvOf(TakenRecv(u)))
    BY AllInHistory
  <1>6. \A u \in Nodes : Taking(u) =>
          /\ Taking(u)' /\ MsgOf(TakenSend(u))' = MsgOf(TakenSend(u))
          /\ RecvOf(TakenRecv(u))' = RecvOf(TakenRecv(u))
    BY DEF Undisturbed, MsgOf, RecvOf, SameSend, SameRecv
  <1>7. \A u \in Nodes : Taking(u)' => Taking(u) \/ u = t
    BY DEF Undisturbed
  <1>8. NonePassed'
    <2>1. ASSUME NEW m \in matched
          PROVE  /\ \A n \in Nodes, x \in SH : InQueue(sq'[n], x) => PassedSend(m.msg, m.recv, x)'
                 /\ \A n \in Nodes, r \in RH : InQueue(rq'[n], r) => PassedRecv(m.msg, m.recv, r)'
      <3>1. /\ InHistory(m.msg, m.recv)
            /\ \A n \in Nodes, x \in SH : InQueue(sq[n], x) => PassedSend(m.msg, m.recv, x)
            /\ \A n \in Nodes, r \in RH : InQueue(rq[n], r) => PassedRecv(m.msg, m.recv, r)
        BY <1>2, <1>5 DEF NonePassed
      <3> QED  BY <1>3, <1>4, <3>1
    <2>2. ASSUME NEW m \in matched, NEW u \in Nodes, Taking(u)
          PROVE  (PassedSend(m.msg, m.recv, TakenSend(u)) /\ PassedRecv(m.msg, m.recv, TakenRecv(u)))'
      <3>1. PICK h \in SH, r \in RH : h = TakenSend(u) /\ r = TakenRecv(u) /\ FreshRecv(r)
        BY <2>2, TakenIs
      <3>2. rh[r].msg \in 1..Len(posted[r[1]])
        BY <3>1 DEF FreshRecv
      <3>3. PassedSend(m.msg, m.recv, h) /\ PassedRecv(m.msg, m.recv, r)
        BY <1>2, <2>2, <3>1 DEF NonePassed
      <3>4. SameSend(h) /\ SameRecv(r) /\ h = TakenSend(u)' /\ r = TakenRecv(u)'
        BY <2>2, <3>1 DEF Undisturbed
      <3>5. PassedSend(m.msg, m.recv, h)' /\ PassedRecv(m.msg, m.recv, r)'
        BY <1>1, <1>5, <3>2, <3>3, <3>4, PassedKept
      <3> QED  BY <3>4, <3>5
    <2>3. ASSUME NEW m \in matched, Taking(t)'
          PROVE  (PassedSend(m.msg, m.recv, TakenSend(t)) /\ PassedRecv(m.msg, m.recv, TakenRecv(t)))'
      <3>1. /\ InHistory(m.msg, m.recv)
            /\ \A n \in Nodes, x \in SH : InQueue(sq[n], x) => PassedSend(m.msg, m.recv, x)
            /\ \A n \in Nodes, r \in RH : InQueue(rq[n], r) => PassedRecv(m.msg, m.recv, r)
        BY <1>2, <1>5 DEF NonePassed
      <3>2. PassedSend(m.msg, m.recv, g)' /\ PassedRecv(m.msg, m.recv, q)'
        BY <1>3, <1>4, <2>3, <3>1
      <3> QED  BY <2>3, <3>2
    <2>4. ASSUME NEW u \in Nodes, Taking(u)
          PROVE  /\ \A n \in Nodes, x \in SH : InQueue(sq'[n], x) =>
                      PassedSend(MsgOf(TakenSend(u)), RecvOf(TakenRecv(u)), x)'
                 /\ \A n \in Nodes, r \in RH : InQueue(rq'[n], r) =>
                      PassedRecv(MsgOf(TakenSend(u)), RecvOf(TakenRecv(u)), r)'
      <3>1. PICK x, y : x = MsgOf(TakenSend(u)) /\ y = RecvOf(TakenRecv(u))
        OBVIOUS
      <3>2. /\ InHistory(x, y)
            /\ \A n \in Nodes, h \in SH : InQueue(sq[n], h) => PassedSend(x, y, h)
            /\ \A n \in Nodes, r \in RH : InQueue(rq[n], r) => PassedRecv(x, y, r)
        BY <1>2, <1>5, <2>4, <3>1 DEF NonePassed
      <3>3. /\ \A n \in Nodes, h \in SH : InQueue(sq'[n], h) => PassedSend(x, y, h)'
            /\ \A n \in Nodes, r \in RH : InQueue(rq'[n], r) => PassedRecv(x, y, r)'
        BY <1>3, <1>4, <3>2
      <3>4. x = MsgOf(TakenSend(u))' /\ y = RecvOf(TakenRecv(u))'
        BY <1>6, <2>4, <3>1
      <3> QED  BY <3>3, <3>4
    <2>5. ASSUME Taking(t)'
          PROVE  /\ \A n \in Nodes, x \in SH : InQueue(sq'[n], x) =>
                      PassedSend(MsgOf(TakenSend(t)), RecvOf(TakenRecv(t)), x)'
                 /\ \A n \in Nodes, r \in RH : InQueue(rq'[n], r) =>
                      PassedRecv(MsgOf(TakenSend(t)), RecvOf(TakenRecv(t)), r)'
      <3>1. PICK x, y : x = MsgOf(g)' /\ y = RecvOf(q)'
        OBVIOUS
      <3>2. x = MsgOf(TakenSend(t))' /\ y = RecvOf(TakenRecv(t))'
        BY <2>5, <3>1 DEF MsgOf, RecvOf
      <3>3. /\ \A n \in Nodes, h \in SH : InQueue(sq'[n], h) => PassedSend(x, y, h)'
            /\ \A n \in Nodes, r \in RH : InQueue(rq'[n], r) => PassedRecv(x, y, r)'
        BY <2>5, <3>1
      <3> QED  BY <3>2, <3>3
    <2> QED  BY <1>1, <1>7, <2>1, <2>2, <2>3, <2>4, <2>5 DEF NonePassed
  <1>9. TakenInOrder'
    <2>1. ASSUME NEW u \in Nodes, Taking(u)
          PROVE  Earlier(MsgOf(TakenSend(u)), RecvOf(TakenRecv(u)))'
      <3>1. PICK x, y : x = MsgOf(TakenSend(u)) /\ y = RecvOf(TakenRecv(u))
        OBVIOUS
      <3>2. InHistory(x, y) /\ Types
        BY <1>5, <2>1, <3>1 DEF Good
      <3>3. Earlier(x, y)'
        BY <1>1, <2>1, <3>1, <3>2, EarlierKept DEF InHistory, Ordered, TakenInOrder
      <3>4. x = MsgOf(TakenSend(u))' /\ y = RecvOf(TakenRecv(u))'
        BY <1>6, <2>1, <3>1
      <3> QED  BY <3>3, <3>4
    <2>2. ASSUME Taking(t)' PROVE Earlier(MsgOf(TakenSend(t)), RecvOf(TakenRecv(t)))'
      <3>1. PICK x, y : x = MsgOf(g)' /\ y = RecvOf(q)'
        OBVIOUS
      <3>2. x = MsgOf(TakenSend(t))' /\ y = RecvOf(TakenRecv(t))'
        BY <2>2, <3>1 DEF MsgOf, RecvOf
      <3>3. Earlier(x, y)'
        BY <2>2, <3>1
      <3> QED  BY <3>2, <3>3
    <2> QED  BY <1>7, <2>1, <2>2 DEF TakenInOrder
  <1>10. NonOvertaking'
    BY <1>1, NonOvertakingKept DEF Ordered
  <1> QED  BY <1>8, <1>9, <1>10 DEF Ordered

\* The start of a send disturbs nothing: its handle is in no queue and nobody has taken it.
LEMMA SendStarts ==
  ASSUME Good, Plain, NEW t \in Nodes, NEW h \in SH, h = cur[t], pc[t] = "start_sh", Sent(t, h),
         UNCHANGED <<rh, cur, posted, matched>>, \A x \in SH : x # h => sh'[x] = sh[x],
         \A u \in Nodes : u # t => pc'[u] = pc[u] /\ found'[u] = found[u]
  PROVE  Undisturbed(t)
  <1>1. Types /\ sh[h].stat \in {"CREATE", "FREE"}
    BY DEF Good, SendStates
  <1>2. HistoryGrows
    BY <1>1, SentGrows DEF HistoryGrows
  <1>3. ~Taking(t)
    BY DEF Taking
  <1>4. \A n \in Nodes, x \in SH : InQueue(sq[n], x) => SameSend(x)
    <2>1. \A n \in Nodes, x \in SH : InQueue(sq[n], x) => x # h
      BY <1>1, QueuedIs
    <2> QED  BY <2>1 DEF SameSend
  <1>5. \A r : SameRecv(r)
    BY DEF SameRecv
  <1>6. \A u \in Nodes : u # t => (Taking(u)' <=> Taking(u))
    BY DEF Taking
  <1>7. ASSUME NEW u \in Nodes, Taking(u)
        PROVE  /\ TakenSend(u)' = TakenSend(u) /\ TakenRecv(u)' = TakenRecv(u)
               /\ SameSend(TakenSend(u)) /\ SameRecv(TakenRecv(u))
    <2>1. TakenSend(u)' = TakenSend(u) /\ TakenRecv(u)' = TakenRecv(u)
      BY <1>3, <1>7 DEF TakenSend, TakenRecv
    <2>2. TakenSend(u) \in SH /\ TakenSend(u) # h
      BY <1>1, <1>7, TakenIs
    <2> QED  BY <1>5, <2>1, <2>2 DEF SameSend
  <1> QED  BY <1>2, <1>3, <1>4, <1>5, <1>6, <1>7 DEF Undisturbed

\* ... and neither does the start of a receive: the channel is locked while a handle of
\* this node is taken.
LEMMA RecvStarts ==
  ASSUME Good, Plain, NEW t \in Nodes, NEW r \in RH, r = cur[t], pc[t] = "start_rh", Posted(t, r),
         chlock[t] = NoNode,
         UNCHANGED <<sh, cur, sent, matched>>, \A x \in RH : x # r => rh'[x] = rh[x],
         \A u \in Nodes : u # t => pc'[u] = pc[u] /\ found'[u] = found[u]
  PROVE  Undisturbed(t)
  <1>1. Types /\ rh[r].stat = "CREATE" /\ r[1] = t
    BY DEF Good, RecvStates, Working, RecvLocs
  <1>2. HistoryGrows
    BY <1>1, PostedGrows DEF HistoryGrows
  <1>3. ~Taking(t)
    BY DEF Taking
  <1>4. \A n \in Nodes, x \in RH : InQueue(rq[n], x) => SameRecv(x)
    <2>1. \A n \in Nodes, x \in RH : InQueue(rq[n], x) => x # r
      BY <1>1, QueuedIs
    <2> QED  BY <2>1 DEF SameRecv
  <1>5. \A h : SameSend(h)
    BY DEF SameSend
  <1>6. \A u \in Nodes : u # t => (Taking(u)' <=> Taking(u))
    BY DEF Taking
  <1>7. ASSUME NEW u \in Nodes, Taking(u)
        PROVE  /\ TakenSend(u)' = TakenSend(u) /\ TakenRecv(u)' = TakenRecv(u)
               /\ SameSend(TakenSend(u)) /\ SameRecv(TakenRecv(u))
    <2>1. TakenSend(u)' = TakenSend(u) /\ TakenRecv(u)' = TakenRecv(u)
      BY <1>3, <1>7 DEF TakenSend, TakenRecv
    <2>2. TakenRecv(u) \in RH /\ chlock[TakenRecv(u)[1]] = u
      BY <1>7, TakenIs
    <2>3. TakenRecv(u) # r
      BY <1>1, <2>2, BoundsAssumption
    <2> QED  BY <1>5, <2>1, <2>2, <2>3 DEF SameRecv
  <1> QED  BY <1>2, <1>3, <1>4, <1>5, <1>6, <1>7 DEF Undisturbed

\* A send that finds no receive goes to the end of the queue, with the last number.
LEMMA OrderStartSendUnmatched ==
  ASSUME Good, Plain, Ordered, NEW t \in Nodes, StartSendUnmatched(t)
  PROVE  Ordered'
  <1>1. PICK h \in SH : h = cur[t] /\ h[1] = t /\ sh[h].dest \in Nodes
    BY DEF StartSendUnmatched, Goto, Good, Working, SendLocs
  <1>2. PICK d \in Nodes : d = sh[h].dest
    BY <1>1
  <1>3. /\ pc[t] = "start_sh" /\ pc' = [pc EXCEPT ![t] = AfterStartSend(h)] /\ ~InQueue(sq[d], h)
        /\ sh' = [sh EXCEPT ![h].stat = "PEND_STRT", ![h].msg = Len(sent[t]) + 1]
        /\ sq' = [sq EXCEPT ![d] = Append(@, h)] /\ Sent(t, h)
        /\ UNCHANGED <<rh, rq, cur, found, posted, matched>>
    BY <1>1, <1>2 DEF StartSendUnmatched, Goto
  <1>4. /\ sh \in [SH -> SendHandle] /\ pc \in [Nodes -> Locations] /\ sq \in [Nodes -> Seq(SH)]
        /\ NoDup(sq[d]) /\ Types
    BY DEF Good, Types, Queues
  <1>5. sh'[h].msg = Len(sent[t]) + 1 /\ \A x \in SH : x # h => sh'[x] = sh[x]
    BY <1>3, <1>4 DEF SendHandle
  <1>6. \A u \in Nodes : u # t => pc'[u] = pc[u] /\ found'[u] = found[u]
    BY <1>3, <1>4
  <1>7. ~Taking(t)'
    BY <1>3, <1>4 DEF AfterStartSend, Taking
  <1>8. Undisturbed(t)
    <2>1. UNCHANGED <<rh, cur, posted, matched>>
      BY <1>3
    <2> QED  BY <1>1, <1>3, <1>5, <1>6, <2>1, SendStarts
  <1>9. \A n \in Nodes : \A x : InQueue(sq'[n], x) <=> InQueue(sq[n], x) \/ (n = d /\ x = h)
    <2>1. \A x : InQueue(Append(sq[d], h), x) <=> InQueue(sq[d], x) \/ x = h
      BY <1>3, <1>4, Appended
    <2> QED  BY <1>3, <1>4, <2>1
  <1>10. /\ Len(sent[t]) \in Nat /\ Len(sent'[t]) = Len(sent[t]) + 1
         /\ \A n \in Nodes : n # t => sent'[n] = sent[n]
    BY <1>3, <1>4, SentGrows
  <1>11. QueuesInOrder'
    <2>1. ASSUME NEW n \in Nodes, NEW i \in 1..Len(sq'[n]), NEW j \in 1..Len(sq'[n]), i < j,
                 sq'[n][i][1] = sq'[n][j][1]
          PROVE  sh'[sq'[n][i]].msg < sh'[sq'[n][j]].msg
      <3>1. \A k \in 1..Len(sq[n]) : sq[n][k] \in SH /\ InQueue(sq[n], sq[n][k]) /\ FreshSend(sq[n][k])
        BY QueuedIs
      <3>2. \A k \in 1..Len(sq[n]) : sh'[sq[n][k]].msg = sh[sq[n][k]].msg
        BY <1>8, <3>1 DEF Undisturbed, SameSend
      <3>3. CASE n # d \/ j # Len(sq[d]) + 1
        <4>1. i \in 1..Len(sq[n]) /\ j \in 1..Len(sq[n]) /\ sq'[n][i] = sq[n][i] /\ sq'[n][j] = sq[n][j]
          BY <1>3, <1>4, <2>1, <3>3
        <4>2. sh[sq[n][i]].msg < sh[sq[n][j]].msg
          BY <2>1, <4>1 DEF Ordered, QueuesInOrder
        <4> QED  BY <3>2, <4>1, <4>2
      <3>4. CASE n = d /\ j = Len(sq[d]) + 1
        <4>1. sq'[n][j] = h /\ i \in 1..Len(sq[n]) /\ sq'[n][i] = sq[n][i]
          BY <1>3, <1>4, <2>1, <3>4
        <4>2. sh[sq[n][i]].msg \in 1..Len(sent[t])
          BY <1>1, <2>1, <3>1, <4>1 DEF FreshSend
        <4>3. sh'[h].msg = Len(sent[t]) + 1 /\ sh'[sq[n][i]].msg = sh[sq[n][i]].msg
          BY <1>5, <3>2, <4>1
        <4> QED  BY <1>10, <4>1, <4>2, <4>3
      <3> QED  BY <3>3, <3>4
    <2> QED  BY <1>3, <2>1 DEF Ordered, QueuesInOrder
  <1>12. Accounted'
    <2>1. ASSUME NEW s \in Nodes, NEW k \in 1..Len(sent'[s])
          PROVE  \/ k \in 1..Len(sent[s])
                 \/ \E n \in Nodes, x \in SH : InQueue(sq'[n], x) /\ MsgOf(x)' = <<s, k>>
      <3>1. CASE s = t /\ k = Len(sent[t]) + 1
        <4>1. InQueue(sq'[d], h) /\ MsgOf(h)' = <<s, k>>
          BY <1>1, <1>5, <1>9, <3>1 DEF MsgOf
        <4> QED  BY <4>1
      <3>2. CASE ~(s = t /\ k = Len(sent[t]) + 1)
        BY <1>10, <3>2
      <3> QED  BY <3>1, <3>2
    <2>2. posted' = posted /\ rq' = rq
      BY <1>3
    <2> QED  BY <1>8, <1>9, <2>1, <2>2, AccountedStarts
  <1>13. \A n \in Nodes, x \in SH : InQueue(sq'[n], x) => KnownSend(x)
    BY <1>1, <1>5, <1>9 DEF KnownSend
  <1>14. \A n \in Nodes, r \in RH : InQueue(rq'[n], r) => KnownRecv(r)
    BY <1>3 DEF KnownRecv
  <1> QED  BY <1>7, <1>8, <1>11, <1>12, <1>13, <1>14, OrderStarts

\* A send that finds a receive takes the first one that does: the receives before it in the
\* queue do not fit, no send in the queue fits it, and what was sent before and is alike has
\* gone to an earlier receive.
LEMMA OrderStartSendMatched ==
  ASSUME Good, Plain, Ordered, NEW t \in Nodes, StartSendMatched(t)
  PROVE  Ordered'
  <1>1. PICK h \in SH : h = cur[t] /\ h[1] = t /\ sh[h].dest \in Nodes
    BY DEF StartSendMatched, Goto, Good, Working, SendLocs
  <1>2. PICK d \in Nodes : d = sh[h].dest
    BY <1>1
  <1>3. PICK i : i = First(rq[d], rq_cmp(h))
    OBVIOUS
  <1>4. /\ pc[t] = "start_sh" /\ pc' = [pc EXCEPT ![t] = "fill_rh"] /\ chlock[d] = NoNode
        /\ i # 0 /\ sh' = [sh EXCEPT ![h].stat = "MATCH", ![h].msg = Len(sent[t]) + 1]
        /\ found' = [found EXCEPT ![t] = rq[d][i]]
        /\ rq' = [rq EXCEPT ![d] = Without(@, i)] /\ Sent(t, h)
        /\ UNCHANGED <<rh, sq, cur, posted, matched>>
    BY <1>1, <1>2, <1>3 DEF StartSendMatched, Goto
  <1>5. /\ sh \in [SH -> SendHandle] /\ pc \in [Nodes -> Locations] /\ rq \in [Nodes -> Seq(RH)]
        /\ found \in [Nodes -> Handles] /\ NoDup(rq[d]) /\ Types
    BY DEF Good, Types, Queues
  <1>6. /\ i \in 1..Len(rq[d]) /\ rq[d][i] \in rq_cmp(h) /\ \A j \in 1..(i - 1) : rq[d][j] \notin rq_cmp(h)
        /\ Len(rq[d]) \in Nat
    BY <1>3, <1>4, <1>5, FirstIs
  <1>7. PICK r \in RH : r = rq[d][i] /\ Fits(rh[r], t, sh[h].tag)
    BY <1>1, <1>6 DEF rq_cmp
  <1>8. /\ InQueue(rq[d], r) /\ Len(Without(rq[d], i)) = Len(rq[d]) - 1
        /\ \A j \in 1..(Len(rq[d]) - 1) : Without(rq[d], i)[j] = IF j < i THEN rq[d][j] ELSE rq[d][j + 1]
        /\ \A x : InQueue(Without(rq[d], i), x) <=> InQueue(rq[d], x) /\ x # r
    <2>1. rq[d] \in Seq(RH)
      BY <1>5
    <2>2. /\ Len(Without(rq[d], i)) = Len(rq[d]) - 1
          /\ \A j \in 1..(Len(rq[d]) - 1) : Without(rq[d], i)[j] = IF j < i THEN rq[d][j] ELSE rq[d][j + 1]
      BY <1>6, <2>1, WithoutIs
    <2>3. InQueue(rq[d], r) /\ \A x : InQueue(Without(rq[d], i), x) <=> InQueue(rq[d], x) /\ x # r
      BY <1>5, <1>6, <1>7, <2>1, Removed
    <2> QED  BY <2>2, <2>3
  <1>9. rq'[d] = Without(rq[d], i) /\ \A n \in Nodes : n # d => rq'[n] = rq[n]
    BY <1>4, <1>5
  <1>10. \A n \in Nodes : \A x : InQueue(rq'[n], x) <=> InQueue(rq[n], x) /\ ~(n = d /\ x = r)
    BY <1>8, <1>9
  <1>11. r[1] = d /\ rh[r].stat \in PEND /\ FreshRecv(r)
    BY <1>8, QueuedIs
  <1>12. /\ rh[r].msg \in 1..Len(posted[d]) /\ posted[d][rh[r].msg] = [src |-> rh[r].src, tag |-> rh[r].tag]
         /\ \A m \in matched : m.recv # <<d, rh[r].msg>>
    BY <1>11 DEF FreshRecv
  <1>13. sh'[h].msg = Len(sent[t]) + 1 /\ \A x \in SH : x # h => sh'[x] = sh[x]
    BY <1>4, <1>5 DEF SendHandle
  <1>14. /\ pc'[t] = "fill_rh" /\ found'[t] = r
         /\ \A u \in Nodes : u # t => pc'[u] = pc[u] /\ found'[u] = found[u]
    BY <1>4, <1>5, <1>7
  <1>15. Taking(t)' /\ TakenSend(t)' = h /\ TakenRecv(t)' = r
    BY <1>1, <1>4, <1>14 DEF Taking, TakenSend, TakenRecv
  <1>16. Undisturbed(t)
    <2>1. UNCHANGED <<rh, cur, posted, matched>>
      BY <1>4
    <2> QED  BY <1>1, <1>4, <1>13, <1>14, <2>1, SendStarts
  <1>17. /\ Len(sent[t]) \in Nat /\ Len(sent'[t]) = Len(sent[t]) + 1
         /\ sent'[t][Len(sent[t]) + 1] = [dest |-> d, tag |-> sh[h].tag]
         /\ \A n \in Nodes : n # t => sent'[n] = sent[n]
         /\ \A k \in 1..Len(sent[t]) : sent'[t][k] = sent[t][k]
    BY <1>2, <1>4, <1>5, SentGrows
  <1>18. MsgOf(h)' = <<t, Len(sent[t]) + 1>> /\ RecvOf(r)' = <<d, rh[r].msg>>
    BY <1>1, <1>4, <1>11, <1>13 DEF MsgOf, RecvOf
  <1>19. QueuesInOrder'
    <2>1. ASSUME NEW n \in Nodes, NEW j \in 1..Len(rq'[n]), NEW k \in 1..Len(rq'[n]), j < k
          PROVE  rh[rq'[n][j]].msg < rh[rq'[n][k]].msg
      <3>1. CASE n # d
        BY <1>9, <2>1, <3>1 DEF Ordered, QueuesInOrder
      <3>2. CASE n = d
        <4>1. PICK jj \in 1..Len(rq[d]) : rq'[n][j] = rq[d][jj] /\ jj = IF j < i THEN j ELSE j + 1
          BY <1>6, <1>8, <1>9, <3>2
        <4>2. PICK kk \in 1..Len(rq[d]) : rq'[n][k] = rq[d][kk] /\ kk = IF k < i THEN k ELSE k + 1
          BY <1>6, <1>8, <1>9, <3>2
        <4>3. jj < kk
          BY <1>6, <2>1, <4>1, <4>2
        <4> QED  BY <4>1, <4>2, <4>3 DEF Ordered, QueuesInOrder
      <3> QED  BY <3>1, <3>2
    <2>2. \A n \in Nodes : \A j \in 1..Len(sq[n]) : sh'[sq[n][j]].msg = sh[sq[n][j]].msg
      BY <1>16, QueuedIs DEF Undisturbed, SameSend
    <2>3. \A n \in Nodes : \A j, k \in 1..Len(sq[n]) :
            j < k /\ sq[n][j][1] = sq[n][k][1] => sh'[sq[n][j]].msg < sh'[sq[n][k]].msg
      BY <2>2 DEF Ordered, QueuesInOrder
    <2>4. sq' = sq /\ rh' = rh
      BY <1>4
    <2> QED  BY <2>1, <2>3, <2>4 DEF QueuesInOrder
  <1>20. Accounted'
    <2>1. ASSUME NEW s \in Nodes, NEW k \in 1..Len(sent'[s])
          PROVE  k \in 1..Len(sent[s]) \/ MsgOf(h)' = <<s, k>>
      BY <1>17, <1>18
    <2>2. MsgOf(TakenSend(t))' = MsgOf(h)'
      BY <1>15 DEF MsgOf
    <2>3. posted' = posted /\ sq' = sq
      BY <1>4
    <2> QED  BY <1>10, <1>15, <1>16, <2>1, <2>2, <2>3, AccountedStarts
  <1>21. \A n \in Nodes, x \in SH : InQueue(sq'[n], x) => KnownSend(x)
    BY <1>4 DEF KnownSend
  <1>22. \A n \in Nodes, x \in RH : InQueue(rq'[n], x) => KnownRecv(x)
    BY <1>10 DEF KnownRecv
  <1>23. KnownSend(h) /\ KnownRecv(r)
    BY <1>1, <1>8, <1>13 DEF KnownSend, KnownRecv
  <1>24. ASSUME NEW n \in Nodes, NEW x \in SH, InQueue(sq[n], x)
         PROVE  PassedSend(MsgOf(h), RecvOf(r), x)'
    <2>1. sh[x].dest = n /\ sh[x].stat \in PEND /\ SameSend(x)
      BY <1>16, <1>24, QueuedIs DEF Undisturbed
    <2>2. n = d => ~Fits(rh[r], x[1], sh[x].tag)
      BY <1>8, <1>11, <1>24, <2>1 DEF Good, NoMissed
    <2>3. n = d => ~Fits(posted[d][rh[r].msg], x[1], sh[x].tag)
      BY <1>12, <2>2 DEF Fits
    <2>4. sh'[x].dest = n /\ sh'[x].tag = sh[x].tag /\ posted' = posted
      BY <1>4, <2>1 DEF SameSend
    <2> QED  BY <1>18, <2>3, <2>4 DEF PassedSend
  <1>25. ASSUME NEW n \in Nodes, NEW x \in RH, InQueue(rq[n], x), ~(n = d /\ x = r)
         PROVE  PassedRecv(MsgOf(h), RecvOf(r), x)'
    <2>1. x[1] = n /\ rh[x].stat \in PEND /\ FreshRecv(x)
      BY <1>25, QueuedIs
    <2>2. ASSUME n = d, rh[x].msg < rh[r].msg
          PROVE  ~Fits(posted[d][rh[x].msg], t, sh[h].tag)
      <3>1. PICK j \in 1..Len(rq[d]) : rq[d][j] = x
        BY <1>25, <2>2 DEF InQueue
      <3>2. ~(i < j)
        <4>1. rh[x].msg \in Nat /\ rh[r].msg \in Nat
          BY <1>5 DEF Types, RecvHandle
        <4>2. i < j => rh[r].msg < rh[x].msg
          BY <1>6, <1>7, <3>1 DEF Ordered, QueuesInOrder
        <4> QED  BY <2>2, <4>1, <4>2
      <3>3. j # i
        BY <1>7, <1>25, <2>2, <3>1
      <3>4. j \in 1..(i - 1)
        BY <1>6, <3>1, <3>2, <3>3
      <3>5. x \notin rq_cmp(h)
        BY <1>6, <3>1, <3>4
      <3>6. ~Fits(rh[x], t, sh[h].tag)
        BY <1>1, <2>1, <3>5 DEF rq_cmp
      <3>7. posted[d][rh[x].msg] = [src |-> rh[x].src, tag |-> rh[x].tag]
        BY <2>1, <2>2 DEF FreshRecv
      <3> QED  BY <3>6, <3>7 DEF Fits
    <2>3. sent'[t][Len(sent[t]) + 1].tag = sh[h].tag /\ rh' = rh /\ posted' = posted
      BY <1>4, <1>17
    <2> QED  BY <1>18, <2>1, <2>2, <2>3 DEF PassedRecv
  <1>26. Earlier(MsgOf(h), RecvOf(r))'
    <2>1. ASSUME NEW k \in 1..Len(sent[t]), sent[t][k] = [dest |-> d, tag |-> sh[h].tag]
          PROVE  \E e \in matched : e.msg = <<t, k>> /\ e.recv[2] < rh[r].msg
      <3>1. ASSUME NEW u \in Nodes, Taking(u), MsgOf(TakenSend(u)) = <<t, k>> PROVE FALSE
        <4>1. PICK g \in SH, q \in RH : /\ g = TakenSend(u) /\ q = TakenRecv(u) /\ FreshSend(g)
                                        /\ sh[g].dest = q[1] /\ chlock[q[1]] = u
          BY <3>1, TakenIs
        <4>2. g[1] = t /\ sh[g].msg = k
          BY <3>1, <4>1 DEF MsgOf
        <4>3. sh[g].dest = d
          BY <2>1, <4>1, <4>2 DEF FreshSend
        <4> QED  BY <1>4, <4>1, <4>3, BoundsAssumption
      <3>2. ASSUME NEW n \in Nodes, NEW x \in SH, InQueue(sq[n], x), MsgOf(x) = <<t, k>> PROVE FALSE
        <4>1. x[1] = t /\ sh[x].msg = k
          BY <3>2 DEF MsgOf
        <4>2. sh[x].dest = n /\ sh[x].stat \in PEND /\ FreshSend(x)
          BY <3>2, QueuedIs
        <4>3. sh[x].dest = d /\ sh[x].tag = sh[h].tag
          BY <2>1, <4>1, <4>2 DEF FreshSend
        <4>4. ~Fits(rh[r], t, sh[h].tag)
          BY <1>8, <1>11, <3>2, <4>1, <4>2, <4>3 DEF Good, NoMissed
        <4> QED  BY <1>7, <4>4
      <3>3. PICK e \in matched : e.msg = <<t, k>>
        BY <3>1, <3>2 DEF Ordered, Accounted
      <3>4. e.recv[1] = d /\ e.msg[1] = t /\ e.msg[2] = k /\ e.recv = <<e.recv[1], e.recv[2]>>
            /\ e.recv[2] \in Nat
        <4>1. e.recv \in Handles
          BY <1>5 DEF Types
        <4>2. sent[e.msg[1]][e.msg[2]].dest = e.recv[1]
          BY DEF Good, Matched, ExactlyOnce
        <4> QED  BY <2>1, <3>3, <4>1, <4>2 DEF Handles
      <3>5. PassedRecv(e.msg, e.recv, r)
        BY <1>8 DEF Ordered, NonePassed
      <3>6. Fits(posted[d][rh[r].msg], t, sent[t][k].tag)
        BY <1>7, <1>12, <2>1 DEF Fits
      <3>7. ~(rh[r].msg < e.recv[2])
        BY <1>11, <3>4, <3>5, <3>6 DEF PassedRecv
      <3>8. e.recv[2] # rh[r].msg
        BY <1>12, <3>4
      <3>9. rh[r].msg \in Nat
        BY <1>5 DEF Types, RecvHandle
      <3> QED  BY <3>3, <3>4, <3>7, <3>8, <3>9
    <2>2. ASSUME NEW k \in 1..(Len(sent[t]) + 1 - 1), sent'[t][k] = sent'[t][Len(sent[t]) + 1]
          PROVE  \E e \in matched : e.msg = <<t, k>> /\ e.recv[2] < rh[r].msg
      <3>1. k \in 1..Len(sent[t])
        BY <1>17
      <3>2. sent[t][k] = [dest |-> d, tag |-> sh[h].tag]
        BY <1>17, <2>2, <3>1
      <3> QED  BY <2>1, <3>1, <3>2
    <2>3. matched' = matched
      BY <1>4
    <2>4. PICK x, y : x = MsgOf(h)' /\ y = RecvOf(r)'
      OBVIOUS
    <2>5. x[1] = t /\ x[2] = Len(sent[t]) + 1 /\ y[2] = rh[r].msg
      BY <1>18, <2>4
    <2>6. ASSUME NEW k \in 1..(x[2] - 1), sent'[x[1]][k] = sent'[x[1]][x[2]]
          PROVE  \E e \in matched' : e.msg = <<x[1], k>> /\ e.recv[2] < y[2]
      <3>1. k \in 1..(Len(sent[t]) + 1 - 1) /\ sent'[t][k] = sent'[t][Len(sent[t]) + 1]
        BY <2>5, <2>6
      <3>2. PICK e \in matched : e.msg = <<t, k>> /\ e.recv[2] < rh[r].msg
        BY <2>2, <3>1
      <3> QED  BY <2>3, <2>5, <3>2
    <2>7. Earlier(x, y)'
      BY <2>6 DEF Earlier
    <2> QED  BY <2>4, <2>7
  <1>27. /\ \A n \in Nodes, x \in SH : InQueue(sq'[n], x) => PassedSend(MsgOf(h), RecvOf(r), x)'
         /\ \A n \in Nodes, x \in RH : InQueue(rq'[n], x) => PassedRecv(MsgOf(h), RecvOf(r), x)'
    BY <1>4, <1>10, <1>24, <1>25
  <1> QED  BY <1>15, <1>16, <1>19, <1>20, <1>21, <1>22, <1>23, <1>26, <1>27, OrderStarts

\* A receive that finds no message goes to the end of the queue, with the last number.
LEMMA OrderStartRecvUnmatched ==
  ASSUME Good, Plain, Ordered, NEW t \in Nodes, StartRecvUnmatched(t)
  PROVE  Ordered'
  <1>1. PICK r \in RH : r = cur[t] /\ r[1] = t
    BY DEF StartRecvUnmatched, Goto, Good, Working, RecvLocs
  <1>2. /\ pc[t] = "start_rh" /\ pc' = [pc EXCEPT ![t] = AfterStartRecv(r)] /\ chlock[t] = NoNode
        /\ rh' = [rh EXCEPT ![r].stat = "PEND_STRT", ![r].msg = Len(posted[t]) + 1]
        /\ rq' = [rq EXCEPT ![t] = Append(@, r)] /\ Posted(t, r)
        /\ UNCHANGED <<sh, sq, cur, found, sent, matched>>
    BY <1>1 DEF StartRecvUnmatched, Goto
  <1>3. /\ rh \in [RH -> RecvHandle] /\ pc \in [Nodes -> Locations] /\ rq \in [Nodes -> Seq(RH)]
        /\ NoDup(rq[t]) /\ Types
    BY DEF Good, Types, Queues
  <1>4. rh'[r].msg = Len(posted[t]) + 1 /\ \A x \in RH : x # r => rh'[x] = rh[x]
    BY <1>2, <1>3 DEF RecvHandle
  <1>5. \A u \in Nodes : u # t => pc'[u] = pc[u] /\ found'[u] = found[u]
    BY <1>2, <1>3
  <1>6. ~Taking(t)'
    BY <1>2, <1>3 DEF AfterStartRecv, Taking
  <1>7. Undisturbed(t)
    <2>1. UNCHANGED <<sh, cur, sent, matched>>
      BY <1>2
    <2> QED  BY <1>1, <1>2, <1>4, <1>5, <2>1, RecvStarts
  <1>8. \A n \in Nodes : \A x : InQueue(rq'[n], x) <=> InQueue(rq[n], x) \/ (n = t /\ x = r)
    <2>1. ~InQueue(rq[t], r)
      <3>1. rh[r].stat = "CREATE"
        BY <1>1, <1>2 DEF Good, RecvStates
      <3> QED  BY <3>1, QueuedIs
    <2>2. \A x : InQueue(Append(rq[t], r), x) <=> InQueue(rq[t], x) \/ x = r
      BY <1>3, <2>1, Appended
    <2> QED  BY <1>2, <1>3, <2>2
  <1>9. /\ Len(posted[t]) \in Nat /\ Len(posted'[t]) = Len(posted[t]) + 1
        /\ \A n \in Nodes : n # t => posted'[n] = posted[n]
    BY <1>2, <1>3, PostedGrows
  <1>10. QueuesInOrder'
    <2>1. ASSUME NEW n \in Nodes, NEW i \in 1..Len(rq'[n]), NEW j \in 1..Len(rq'[n]), i < j
          PROVE  rh'[rq'[n][i]].msg < rh'[rq'[n][j]].msg
      <3>1. \A k \in 1..Len(rq[n]) : /\ rq[n][k] \in RH /\ InQueue(rq[n], rq[n][k])
                                     /\ rq[n][k][1] = n /\ FreshRecv(rq[n][k])
        BY QueuedIs
      <3>2. \A k \in 1..Len(rq[n]) : rh'[rq[n][k]].msg = rh[rq[n][k]].msg
        BY <1>7, <3>1 DEF Undisturbed, SameRecv
      <3>3. CASE n # t \/ j # Len(rq[t]) + 1
        <4>1. i \in 1..Len(rq[n]) /\ j \in 1..Len(rq[n]) /\ rq'[n][i] = rq[n][i] /\ rq'[n][j] = rq[n][j]
          BY <1>2, <1>3, <2>1, <3>3
        <4>2. rh[rq[n][i]].msg < rh[rq[n][j]].msg
          BY <2>1, <4>1 DEF Ordered, QueuesInOrder
        <4> QED  BY <3>2, <4>1, <4>2
      <3>4. CASE n = t /\ j = Len(rq[t]) + 1
        <4>1. rq'[n][j] = r /\ i \in 1..Len(rq[n]) /\ rq'[n][i] = rq[n][i]
          BY <1>2, <1>3, <2>1, <3>4
        <4>2. rh[rq[n][i]].msg \in 1..Len(posted[t])
          BY <3>1, <3>4, <4>1 DEF FreshRecv
        <4>3. rh'[r].msg = Len(posted[t]) + 1 /\ rh'[rq[n][i]].msg = rh[rq[n][i]].msg
          BY <1>4, <3>2, <4>1
        <4> QED  BY <1>9, <4>1, <4>2, <4>3
      <3> QED  BY <3>3, <3>4
    <2>2. sq' = sq /\ sh' = sh
      BY <1>2
    <2> QED  BY <2>1, <2>2 DEF Ordered, QueuesInOrder
  <1>11. Accounted'
    <2>1. ASSUME NEW e \in Nodes, NEW k \in 1..Len(posted'[e])
          PROVE  \/ k \in 1..Len(posted[e])
                 \/ \E x \in RH : InQueue(rq'[e], x) /\ RecvOf(x)' = <<e, k>>
      <3>1. CASE e = t /\ k = Len(posted[t]) + 1
        <4>1. InQueue(rq'[e], r) /\ RecvOf(r)' = <<e, k>>
          BY <1>1, <1>4, <1>8, <3>1 DEF RecvOf
        <4> QED  BY <4>1
      <3>2. CASE ~(e = t /\ k = Len(posted[t]) + 1)
        BY <1>9, <3>2
      <3> QED  BY <3>1, <3>2
    <2>2. sent' = sent /\ sq' = sq
      BY <1>2
    <2> QED  BY <1>7, <1>8, <2>1, <2>2, AccountedStarts
  <1>12. \A n \in Nodes, x \in SH : InQueue(sq'[n], x) => KnownSend(x)
    BY <1>2 DEF KnownSend
  <1>13. \A n \in Nodes, x \in RH : InQueue(rq'[n], x) => KnownRecv(x)
    BY <1>1, <1>4, <1>8 DEF KnownRecv
  <1> QED  BY <1>6, <1>7, <1>10, <1>11, <1>12, <1>13, OrderStarts

\* A receive that finds a message takes the first one that fits: of the messages of its
\* sender that is the earliest, and all receives posted before it have been passed over.
LEMMA OrderStartRecvMatched ==
  ASSUME Good, Plain, Ordered, NEW t \in Nodes, StartRecvMatched(t)
  PROVE  Ordered'
  <1>1. PICK r \in RH : r = cur[t] /\ r[1] = t
    BY DEF StartRecvMatched, Goto, Good, Working, RecvLocs
  <1>2. PICK i : i = First(sq[t], sq_cmp(rh[r]))
    OBVIOUS
  <1>3. /\ pc[t] = "start_rh" /\ pc' = [pc EXCEPT ![t] = "fill_sh"] /\ chlock[t] = NoNode
        /\ i # 0 /\ rh' = [rh EXCEPT ![r].msg = Len(posted[t]) + 1]
        /\ found' = [found EXCEPT ![t] = sq[t][i]]
        /\ sq' = [sq EXCEPT ![t] = Without(@, i)] /\ Posted(t, r)
        /\ UNCHANGED <<sh, rq, cur, sent, matched>>
    BY <1>1, <1>2 DEF StartRecvMatched, Goto
  <1>4. /\ rh \in [RH -> RecvHandle] /\ pc \in [Nodes -> Locations] /\ sq \in [Nodes -> Seq(SH)]
        /\ found \in [Nodes -> Handles] /\ NoDup(sq[t]) /\ Types
    BY DEF Good, Types, Queues
  <1>5. /\ i \in 1..Len(sq[t]) /\ sq[t][i] \in sq_cmp(rh[r])
        /\ \A j \in 1..(i - 1) : sq[t][j] \notin sq_cmp(rh[r])
        /\ Len(sq[t]) \in Nat
    BY <1>2, <1>3, <1>4, FirstIs
  <1>6. PICK h \in SH : h = sq[t][i] /\ Fits(rh[r], h[1], sh[h].tag)
    BY <1>5 DEF sq_cmp
  <1>7. /\ InQueue(sq[t], h) /\ Len(Without(sq[t], i)) = Len(sq[t]) - 1
        /\ \A j \in 1..(Len(sq[t]) - 1) : Without(sq[t], i)[j] = IF j < i THEN sq[t][j] ELSE sq[t][j + 1]
        /\ \A x : InQueue(Without(sq[t], i), x) <=> InQueue(sq[t], x) /\ x # h
    <2>1. sq[t] \in Seq(SH)
      BY <1>4
    <2>2. /\ Len(Without(sq[t], i)) = Len(sq[t]) - 1
          /\ \A j \in 1..(Len(sq[t]) - 1) : Without(sq[t], i)[j] = IF j < i THEN sq[t][j] ELSE sq[t][j + 1]
      BY <1>5, <2>1, WithoutIs
    <2>3. InQueue(sq[t], h) /\ \A x : InQueue(Without(sq[t], i), x) <=> InQueue(sq[t], x) /\ x # h
      BY <1>4, <1>5, <1>6, <2>1, Removed
    <2> QED  BY <2>2, <2>3
  <1>8. sq'[t] = Without(sq[t], i) /\ \A n \in Nodes : n # t => sq'[n] = sq[n]
    BY <1>3, <1>4
  <1>9. \A n \in Nodes : \A x : InQueue(sq'[n], x) <=> InQueue(sq[n], x) /\ ~(n = t /\ x = h)
    BY <1>7, <1>8
  <1>10. sh[h].dest = t /\ sh[h].stat \in PEND /\ FreshSend(h) /\ h[1] \in Nodes
    BY <1>7, QueuedIs
  <1>11. /\ sh[h].msg \in 1..Len(sent[h[1]]) /\ sent[h[1]][sh[h].msg] = [dest |-> t, tag |-> sh[h].tag]
         /\ Len(sent[h[1]]) \in Nat
    BY <1>4, <1>10 DEF FreshSend, Types
  <1>12. rh'[r].msg = Len(posted[t]) + 1 /\ \A x \in RH : x # r => rh'[x] = rh[x]
    BY <1>3, <1>4 DEF RecvHandle
  <1>13. /\ pc'[t] = "fill_sh" /\ found'[t] = h
         /\ \A u \in Nodes : u # t => pc'[u] = pc[u] /\ found'[u] = found[u]
    BY <1>3, <1>4, <1>6
  <1>14. Taking(t)' /\ TakenSend(t)' = h /\ TakenRecv(t)' = r
    BY <1>1, <1>3, <1>13 DEF Taking, TakenSend, TakenRecv
  <1>15. Undisturbed(t)
    <2>1. UNCHANGED <<sh, cur, sent, matched>>
      BY <1>3
    <2> QED  BY <1>1, <1>3, <1>12, <1>13, <2>1, RecvStarts
  <1>16. /\ Len(posted[t]) \in Nat /\ Len(posted'[t]) = Len(posted[t]) + 1
         /\ posted'[t][Len(posted[t]) + 1] = [src |-> rh[r].src, tag |-> rh[r].tag]
         /\ \A n \in Nodes : n # t => posted'[n] = posted[n]
         /\ \A k \in 1..Len(posted[t]) : posted'[t][k] = posted[t][k]
    BY <1>3, <1>4, PostedGrows
  <1>17. MsgOf(h)' = <<h[1], sh[h].msg>> /\ RecvOf(r)' = <<t, Len(posted[t]) + 1>>
    BY <1>1, <1>3, <1>12 DEF MsgOf, RecvOf
  <1>18. QueuesInOrder'
    <2>1. ASSUME NEW n \in Nodes, NEW j \in 1..Len(sq'[n]), NEW k \in 1..Len(sq'[n]), j < k,
                 sq'[n][j][1] = sq'[n][k][1]
          PROVE  sh[sq'[n][j]].msg < sh[sq'[n][k]].msg
      <3>1. CASE n # t
        BY <1>8, <2>1, <3>1 DEF Ordered, QueuesInOrder
      <3>2. CASE n = t
        <4>1. PICK jj \in 1..Len(sq[t]) : sq'[n][j] = sq[t][jj] /\ jj = IF j < i THEN j ELSE j + 1
          BY <1>5, <1>7, <1>8, <3>2
        <4>2. PICK kk \in 1..Len(sq[t]) : sq'[n][k] = sq[t][kk] /\ kk = IF k < i THEN k ELSE k + 1
          BY <1>5, <1>7, <1>8, <3>2
        <4>3. jj < kk /\ sq[t][jj][1] = sq[t][kk][1]
          BY <1>5, <2>1, <4>1, <4>2
        <4> QED  BY <4>1, <4>2, <4>3 DEF Ordered, QueuesInOrder
      <3> QED  BY <3>1, <3>2
    <2>2. \A n \in Nodes : \A j \in 1..Len(rq[n]) : rh'[rq[n][j]].msg = rh[rq[n][j]].msg
      BY <1>15, QueuedIs DEF Undisturbed, SameRecv
    <2>3. \A n \in Nodes : \A j, k \in 1..Len(rq[n]) :
            j < k => rh'[rq[n][j]].msg < rh'[rq[n][k]].msg
      BY <2>2 DEF Ordered, QueuesInOrder
    <2>4. rq' = rq /\ sh' = sh
      BY <1>3
    <2> QED  BY <2>1, <2>3, <2>4 DEF QueuesInOrder
  <1>19. Accounted'
    <2>1. ASSUME NEW e \in Nodes, NEW k \in 1..Len(posted'[e])
          PROVE  k \in 1..Len(posted[e]) \/ RecvOf(r)' = <<e, k>>
      BY <1>16, <1>17
    <2>2. RecvOf(TakenRecv(t))' = RecvOf(r)'
      BY <1>14 DEF RecvOf
    <2>3. sent' = sent /\ rq' = rq
      BY <1>3
    <2> QED  BY <1>9, <1>14, <1>15, <2>1, <2>2, <2>3, AccountedStarts
  <1>20. \A n \in Nodes, x \in SH : InQueue(sq'[n], x) => KnownSend(x)
    BY <1>9 DEF KnownSend
  <1>21. \A n \in Nodes, x \in RH : InQueue(rq'[n], x) => KnownRecv(x)
    BY <1>3 DEF KnownRecv
  <1>22. KnownSend(h) /\ KnownRecv(r)
    BY <1>1, <1>7, <1>12 DEF KnownSend, KnownRecv
  \* A message of the same sender that is queued, and earlier, does not fit.
  <1>23. ASSUME NEW x \in SH, InQueue(sq[t], x), x[1] = h[1], sh[x].msg < sh[h].msg
         PROVE  ~Fits(rh[r], x[1], sh[x].tag)
    <2>1. PICK j \in 1..Len(sq[t]) : sq[t][j] = x
      BY <1>23 DEF InQueue
    <2>2. sh[x].msg \in Nat /\ sh[h].msg \in Nat
      BY <1>4 DEF Types, SendHandle
    <2>3. ~(i < j)
      <3>1. i < j => sh[h].msg < sh[x].msg
        BY <1>5, <1>6, <1>23, <2>1 DEF Ordered, QueuesInOrder
      <3> QED  BY <1>23, <2>2, <3>1
    <2>4. j # i
      BY <1>6, <1>23, <2>1, <2>2
    <2>5. j \in 1..(i - 1)
      BY <1>5, <2>1, <2>3, <2>4
    <2>6. x \notin sq_cmp(rh[r])
      BY <1>5, <2>1, <2>5
    <2>7. sh[x].stat \in PEND
      BY <1>23, QueuedIs
    <2> QED  BY <2>6, <2>7 DEF sq_cmp
  <1>24. ASSUME NEW n \in Nodes, NEW x \in SH, InQueue(sq[n], x)
         PROVE  PassedSend(MsgOf(h), RecvOf(r), x)'
    <2>1. sh[x].dest = n
      BY <1>24, QueuedIs
    <2>2. n = t /\ x[1] = h[1] /\ sh[x].msg < sh[h].msg =>
            ~Fits(posted'[t][Len(posted[t]) + 1], x[1], sh[x].tag)
      BY <1>16, <1>23, <1>24 DEF Fits
    <2>3. sh' = sh
      BY <1>3
    <2> QED  BY <1>17, <2>1, <2>2, <2>3 DEF PassedSend
  <1>25. ASSUME NEW n \in Nodes, NEW x \in RH, InQueue(rq[n], x)
         PROVE  PassedRecv(MsgOf(h), RecvOf(r), x)'
    <2>1. x[1] = n /\ rh[x].stat \in PEND /\ FreshRecv(x) /\ SameRecv(x)
      BY <1>15, <1>25, QueuedIs DEF Undisturbed
    <2>2. n = t => ~Fits(rh[x], h[1], sh[h].tag)
      BY <1>7, <1>10, <1>25, <2>1 DEF Good, NoMissed
    <2>3. rh[x].msg \in 1..Len(posted[n]) /\ posted[n][rh[x].msg] = [src |-> rh[x].src, tag |-> rh[x].tag]
      BY <2>1 DEF FreshRecv
    <2>4. n = t => ~Fits(posted'[t][rh[x].msg], h[1], sh[h].tag)
      BY <1>16, <2>2, <2>3 DEF Fits
    <2>5. sent' = sent /\ rh'[x].msg = rh[x].msg /\ sent[h[1]][sh[h].msg].tag = sh[h].tag
      BY <1>3, <1>11, <2>1 DEF SameRecv
    <2> QED  BY <1>17, <2>1, <2>4, <2>5 DEF PassedRecv
  <1>26. Earlier(MsgOf(h), RecvOf(r))'
    <2>1. ASSUME NEW k \in 1..(sh[h].msg - 1), sent[h[1]][k] = sent[h[1]][sh[h].msg]
          PROVE  \E e \in matched : e.msg = <<h[1], k>> /\ e.recv[2] < Len(posted[t]) + 1
      <3>1. k \in 1..Len(sent[h[1]]) /\ k < sh[h].msg /\ sent[h[1]][k] = [dest |-> t, tag |-> sh[h].tag]
        BY <1>11, <2>1
      <3>2. ASSUME NEW u \in Nodes, Taking(u), MsgOf(TakenSend(u)) = <<h[1], k>> PROVE FALSE
        <4>1. PICK g \in SH, q \in RH : /\ g = TakenSend(u) /\ q = TakenRecv(u) /\ FreshSend(g)
                                        /\ sh[g].dest = q[1] /\ chlock[q[1]] = u
          BY <3>2, TakenIs
        <4>2. g[1] = h[1] /\ sh[g].msg = k
          BY <3>2, <4>1 DEF MsgOf
        <4>3. sh[g].dest = t
          BY <3>1, <4>1, <4>2 DEF FreshSend
        <4> QED  BY <1>3, <4>1, <4>3, BoundsAssumption
      <3>3. ASSUME NEW n \in Nodes, NEW x \in SH, InQueue(sq[n], x), MsgOf(x) = <<h[1], k>> PROVE FALSE
        <4>1. x[1] = h[1] /\ sh[x].msg = k
          BY <3>3 DEF MsgOf
        <4>2. sh[x].dest = n /\ FreshSend(x)
          BY <3>3, QueuedIs
        <4>3. sh[x].dest = t /\ sh[x].tag = sh[h].tag
          BY <3>1, <4>1, <4>2 DEF FreshSend
        <4>4. ~Fits(rh[r], h[1], sh[h].tag)
          BY <1>23, <3>1, <3>3, <4>1, <4>2, <4>3
        <4> QED  BY <1>6, <4>4
      <3>4. PICK e \in matched : e.msg = <<h[1], k>>
        BY <1>10, <3>1, <3>2, <3>3 DEF Ordered, Accounted
      <3>5. e.recv[1] = t /\ e.recv[2] \in 1..Len(posted[t])
        <4>1. sent[e.msg[1]][e.msg[2]].dest = e.recv[1] /\ e.recv[2] \in 1..Len(posted[e.recv[1]])
          BY DEF Good, Matched, ExactlyOnce
        <4> QED  BY <3>1, <3>4, <4>1
      <3> QED  BY <1>16, <3>4, <3>5
    <2>2. matched' = matched /\ sent' = sent
      BY <1>3
    <2>3. PICK x, y : x = MsgOf(h)' /\ y = RecvOf(r)'
      OBVIOUS
    <2>4. x[1] = h[1] /\ x[2] = sh[h].msg /\ y[2] = Len(posted[t]) + 1
      BY <1>17, <2>3
    <2>5. ASSUME NEW k \in 1..(x[2] - 1), sent'[x[1]][k] = sent'[x[1]][x[2]]
          PROVE  \E e \in matched' : e.msg = <<x[1], k>> /\ e.recv[2] < y[2]
      <3>1. k \in 1..(sh[h].msg - 1) /\ sent[h[1]][k] = sent[h[1]][sh[h].msg]
        BY <2>2, <2>4, <2>5
      <3>2. PICK e \in matched : e.msg = <<h[1], k>> /\ e.recv[2] < Len(posted[t]) + 1
        BY <2>1, <3>1
      <3> QED  BY <2>2, <2>4, <3>2
    <2>6. Earlier(x, y)'
      BY <2>5 DEF Earlier
    <2> QED  BY <2>3, <2>6
  <1>27. /\ \A n \in Nodes, x \in SH : InQueue(sq'[n], x) => PassedSend(MsgOf(h), RecvOf(r), x)'
         /\ \A n \in Nodes, x \in RH : InQueue(rq'[n], x) => PassedRecv(MsgOf(h), RecvOf(r), x)'
    BY <1>3, <1>9, <1>24, <1>25
  <1> QED  BY <1>14, <1>15, <1>18, <1>19, <1>20, <1>21, <1>22, <1>26, <1>27, OrderStarts

\* A copy records the pair that was taken.
LEMMA OrderFillRecv ==
  ASSUME Good, Plain, Ordered, NEW t \in Nodes, FillRecv(t)
  PROVE  Ordered'
  <1>1. PICK h \in SH, r \in RH : h = cur[t] /\ r = found[t] /\ h[1] = t
    BY DEF FillRecv, Good, Working, SendLocs, Filling, FillingRecv
  <1>2. /\ pc[t] = "fill_rh" /\ UNCHANGED <<sh, sq, rq, cur, found, sent, posted>>
        /\ rh' = [rh EXCEPT ![r].src = t, ![r].tag = sh[h].tag,
                            ![r].stat = IF @ \in {"PEND_WAIT", "PEND_STRT"} THEN "MATCH" ELSE @]
        /\ matched' = matched \cup {[msg |-> <<t, sh[h].msg>>, recv |-> <<r[1], rh[r].msg>>,
                                     data |-> "intact"]}
        /\ pc' = [n \in Nodes |->
                    IF n = t THEN AfterStartSend(h)
                    ELSE IF rh[r].stat = "PEND_WAIT" /\ pc[n] = "sleep_rh" /\ cur[n] = r
                         THEN "wake_rh" ELSE pc[n]]
    BY <1>1 DEF FillRecv, queues
  <1>3. Taking(t) /\ ~Taking(t)' /\ TakenSend(t) = h /\ TakenRecv(t) = r
    BY <1>1, <1>2 DEF Taking, TakenSend, TakenRecv, AfterStartSend
  <1>4. MsgOf(h) = <<t, sh[h].msg>> /\ RecvOf(r) = <<r[1], rh[r].msg>>
    BY <1>1 DEF MsgOf, RecvOf
  <1>5. \A u \in Nodes \ {t} : (Taking(u)' <=> Taking(u)) /\ (Taking(u) => pc'[u] = pc[u])
    BY <1>2 DEF Taking
  <1>6. \A x \in SH : SameSend(x)
    BY <1>2 DEF SameSend
  <1>7. \A x \in RH : SameRecv(x)
    <2>1. rh \in [RH -> RecvHandle]
      BY DEF Good, Types
    <2>2. rh'[r].msg = rh[r].msg
      BY <1>2, <2>1 DEF RecvHandle
    <2>3. \A x \in RH : x # r => rh'[x] = rh[x]
      BY <1>2, <2>1
    <2> QED  BY <2>2, <2>3 DEF SameRecv
  <1>8. UNCHANGED <<sq, rq, cur, found, sent, posted>>
        /\ matched' = matched \cup {[msg |-> MsgOf(TakenSend(t)), recv |-> RecvOf(TakenRecv(t)),
                                     data |-> "intact"]}
    BY <1>2, <1>3, <1>4
  <1> QED  BY <1>3, <1>5, <1>6, <1>7, <1>8, OrderFilled

\* ... whichever side makes it.
LEMMA OrderFillSend ==
  ASSUME Good, Plain, Ordered, NEW t \in Nodes, FillSend(t)
  PROVE  Ordered'
  <1>1. PICK r \in RH, h \in SH : r = cur[t] /\ h = found[t] /\ r[1] = t
    BY DEF FillSend, Good, Working, RecvLocs, Filling, FillingSend
  <1>2. /\ pc[t] = "fill_sh" /\ UNCHANGED <<sq, rq, cur, found, sent, posted>>
        /\ rh' = [rh EXCEPT ![r].src = h[1], ![r].tag = sh[h].tag, ![r].stat = "MATCH"]
        /\ sh' = [sh EXCEPT ![h] = CASE @.stat \in {"PEND_WAIT", "PEND_STRT"} -> [@ EXCEPT !.stat = "MATCH"]
                                     [] @.stat = "PEND_RELS" -> SendOver(@)
                                     [] OTHER -> @]
        /\ matched' = matched \cup {[msg |-> <<h[1], sh[h].msg>>, recv |-> <<t, rh[r].msg>>,
                                     data |-> Content(sh[h])]}
        /\ pc' = [n \in Nodes |->
                    IF n = t THEN AfterStartRecv(r)
                    ELSE IF sh[h].stat = "PEND_WAIT" /\ pc[n] = "sleep_sh" /\ cur[n] = h
                         THEN "wake_sh" ELSE pc[n]]
    BY <1>1 DEF FillSend, queues
  <1>3. Taking(t) /\ ~Taking(t)' /\ TakenSend(t) = h /\ TakenRecv(t) = r
    BY <1>1, <1>2 DEF Taking, TakenSend, TakenRecv, AfterStartRecv
  <1>4. MsgOf(h) = <<h[1], sh[h].msg>> /\ RecvOf(r) = <<t, rh[r].msg>>
    BY <1>1 DEF MsgOf, RecvOf
  <1>5. \A u \in Nodes \ {t} : (Taking(u)' <=> Taking(u)) /\ (Taking(u) => pc'[u] = pc[u])
    BY <1>2 DEF Taking
  <1>6. \A x \in SH : SameSend(x)
    <2>1. sh \in [SH -> SendHandle] /\ sh[h] \in SendHandle
      BY DEF Good, Types
    <2>2. /\ sh'[h] = CASE sh[h].stat \in {"PEND_WAIT", "PEND_STRT"} -> [sh[h] EXCEPT !.stat = "MATCH"]
                        [] sh[h].stat = "PEND_RELS" -> SendOver(sh[h])
                        [] OTHER -> sh[h]
          /\ \A x \in SH : x # h => sh'[x] = sh[x]
      BY <1>2, <2>1
    <2>3. /\ SendOver(sh[h]).msg = sh[h].msg /\ SendOver(sh[h]).dest = sh[h].dest
          /\ SendOver(sh[h]).tag = sh[h].tag
      BY <2>1, Endings
    <2>4. SameSend(h)
      <3>1. CASE sh[h].stat \in {"PEND_WAIT", "PEND_STRT"}
        <4>1. sh'[h] = [sh[h] EXCEPT !.stat = "MATCH"]
          BY <2>2, <3>1
        <4> QED  BY <2>1, <4>1 DEF SameSend, SendHandle
      <3>2. CASE sh[h].stat = "PEND_RELS"
        BY <2>2, <2>3, <3>2 DEF SameSend
      <3>3. CASE sh[h].stat \notin {"PEND_WAIT", "PEND_STRT", "PEND_RELS"}
        BY <2>2, <3>3 DEF SameSend
      <3> QED  BY <3>1, <3>2, <3>3
    <2> QED  BY <2>2, <2>4 DEF SameSend
  <1>7. \A x \in RH : SameRecv(x)
    <2>1. rh \in [RH -> RecvHandle]
      BY DEF Good, Types
    <2>2. rh'[r].msg = rh[r].msg
      BY <1>2, <2>1 DEF RecvHandle
    <2>3. \A x \in RH : x # r => rh'[x] = rh[x]
      BY <1>2, <2>1
    <2> QED  BY <2>2, <2>3 DEF SameRecv
  <1>8. matched' = matched \cup {[msg |-> MsgOf(TakenSend(t)), recv |-> RecvOf(TakenRecv(t)),
                                  data |-> Content(sh[h])]}
    BY <1>2, <1>3, <1>4
  <1>9. PICK data : data = Content(sh[h])
    OBVIOUS
  <1> QED  BY <1>2, <1>3, <1>5, <1>6, <1>7, <1>8, <1>9, OrderFilled

\* A step of a node that is not filling, on its own handle.
LEMMA OrderOwn ==
  ASSUME Good, Plain, Ordered, NEW t \in Nodes, ~Taking(t), ~Taking(t)',
         UNCHANGED <<sq, rq, sent, posted, matched>>,
         \A u \in Nodes : u # t => pc'[u] = pc[u] /\ cur'[u] = cur[u] /\ found'[u] = found[u],
         \A h \in SH : sh[h].stat # "NONE" => SameSend(h),
         \A r \in RH : rh[r].stat # "NONE" => SameRecv(r)
  PROVE  Ordered'
  <1>1. ASSUME NEW u \in Nodes
        PROVE  /\ Taking(u)' <=> Taking(u)
               /\ Taking(u) => pc'[u] = pc[u] /\ cur'[u] = cur[u] /\ found'[u] = found[u]
    <2>1. CASE u = t
      BY <2>1
    <2>2. CASE u # t
      BY <2>2 DEF Taking
    <2> QED  BY <2>1, <2>2
  <1> QED  BY <1>1, OrderKept

\* Such a step on a send handle that keeps what the call asked for ...
LEMMA OrderOnSend ==
  ASSUME Good, Plain, Ordered, NEW t \in Nodes, pc[t] \in SendLocs \ {"fill_rh"}, NEW s, NEW l,
         l \notin {"fill_rh", "fill_sh"}, OnSend(t, s, l),
         s.msg = sh[cur[t]].msg, s.dest = sh[cur[t]].dest, s.tag = sh[cur[t]].tag
  PROVE  Ordered'
  <1>1. PICK h \in SH : h = cur[t]
    BY DEF Good, Working
  <1>2. /\ sh' = [sh EXCEPT ![h] = s] /\ pc' = [pc EXCEPT ![t] = l]
        /\ UNCHANGED <<rh, sq, rq, cur, found, sent, posted, matched>>
    BY <1>1 DEF OnSend, queues, history
  <1>3. ~Taking(t) /\ ~Taking(t)' /\ \A u \in Nodes : u # t => pc'[u] = pc[u]
    BY <1>2 DEF Taking, SendLocs, Good, Types
  <1>4. \A x \in SH : SameSend(x)
    <2>1. sh'[h] = s /\ \A x \in SH : x # h => sh'[x] = sh[x]
      BY <1>2 DEF Good, Types
    <2> QED  BY <1>1, <2>1 DEF SameSend
  <1>5. \A x \in RH : SameRecv(x)
    BY <1>2 DEF SameRecv
  <1>6. UNCHANGED <<sq, rq, sent, posted, matched>> /\ cur' = cur /\ found' = found
    BY <1>2
  <1> QED  BY <1>3, <1>4, <1>5, <1>6, OrderOwn

\* ... and on a receive handle.
LEMMA OrderOnRecv ==
  ASSUME Good, Plain, Ordered, NEW t \in Nodes, pc[t] \in RecvLocs \ {"fill_sh"}, NEW s, NEW l,
         l \notin {"fill_rh", "fill_sh"}, OnRecv(t, s, l), s.msg = rh[cur[t]].msg
  PROVE  Ordered'
  <1>1. PICK r \in RH : r = cur[t]
    BY DEF Good, Working
  <1>2. /\ rh' = [rh EXCEPT ![r] = s] /\ pc' = [pc EXCEPT ![t] = l]
        /\ UNCHANGED <<sh, sq, rq, cur, found, sent, posted, matched>>
    BY <1>1 DEF OnRecv, queues, history
  <1>3. ~Taking(t) /\ ~Taking(t)' /\ \A u \in Nodes : u # t => pc'[u] = pc[u]
    BY <1>2 DEF Taking, RecvLocs, Good, Types
  <1>4. \A x \in RH : SameRecv(x)
    <2>1. rh'[r] = s /\ \A x \in RH : x # r => rh'[x] = rh[x]
      BY <1>2 DEF Good, Types
    <2> QED  BY <1>1, <2>1 DEF SameRecv
  <1>5. \A x \in SH : SameSend(x)
    BY <1>2 DEF SameSend
  <1>6. UNCHANGED <<sq, rq, sent, posted, matched>> /\ cur' = cur /\ found' = found
    BY <1>2
  <1> QED  BY <1>3, <1>4, <1>5, <1>6, OrderOwn

\* Waiting for a request, and testing one, start nothing and copy nothing.
LEMMA OrderWaits ==
  ASSUME Good, Plain, Ordered, NEW t \in Nodes, WaitStep(t)
  PROVE  Ordered'
  <1>1. CASE \/ EnterWaitSend(t) \/ WaitSendMatched(t) \/ WaitSendSync(t) \/ WaitSendBuffered(t)
             \/ WaitSendNotReady(t) \/ WakeSendAgain(t) \/ WakeSend(t)
    <2>1. pc[t] \in SendLocs \ {"fill_rh"}
      BY <1>1 DEF EnterWaitSend, WaitSendMatched, WaitSendSync, WaitSendBuffered,
                  WaitSendNotReady, WakeSendAgain, WakeSend, AtSend, SendLocs
    <2>2. sh[cur[t]] \in SendHandle
      BY <2>1, OwnSend
    <2>3. PICK s, l : /\ OnSend(t, s, l) /\ l \in {"idle", "wait_sh", "sleep_sh"}
                      /\ \/ s = sh[cur[t]] \/ s = SendOver(sh[cur[t]]) \/ s = SendLeft(sh[cur[t]])
                         \/ s = [sh[cur[t]] EXCEPT !.stat = "PEND_WAIT"]
      BY <1>1 DEF EnterWaitSend, WaitSendMatched, WaitSendSync, WaitSendBuffered,
                  WaitSendNotReady, WakeSendAgain, WakeSend
    <2>4. PICK z \in SendHandle : z = sh[cur[t]]
      BY <2>2
    <2>5. s.msg = z.msg /\ s.dest = z.dest /\ s.tag = z.tag
      <3>1. CASE s = [z EXCEPT !.stat = "PEND_WAIT"]
        BY <3>1 DEF SendHandle
      <3>2. CASE s = z \/ s = SendOver(z) \/ s = SendLeft(z)
        BY <3>2, Endings
      <3> QED  BY <2>3, <2>4, <3>1, <3>2
    <2>6. s.msg = sh[cur[t]].msg /\ s.dest = sh[cur[t]].dest /\ s.tag = sh[cur[t]].tag
      BY <2>4, <2>5
    <2>7. l \notin {"fill_rh", "fill_sh"}
      BY <2>3
    <2> QED  BY <2>1, <2>3, <2>6, <2>7, OrderOnSend
  <1>2. CASE \/ EnterWaitRecv(t) \/ WaitRecvMatched(t) \/ WaitRecvSleep(t)
             \/ WakeRecvAgain(t) \/ WakeRecv(t)
    <2>1. pc[t] \in RecvLocs \ {"fill_sh"}
      BY <1>2 DEF EnterWaitRecv, WaitRecvMatched, WaitRecvSleep, WakeRecvAgain, WakeRecv, RecvLocs
    <2>2. PICK z \in RecvHandle : z = rh[cur[t]]
      BY <2>1, OwnRecv
    <2>3. PICK s, l : /\ OnRecv(t, s, l) /\ l \in {"idle", "wait_rh", "sleep_rh"}
                      /\ \/ s = rh[cur[t]] \/ s = RecvOver(rh[cur[t]])
                         \/ s = [rh[cur[t]] EXCEPT !.stat = "PEND_WAIT"]
      BY <1>2 DEF EnterWaitRecv, WaitRecvMatched, WaitRecvSleep, WakeRecvAgain, WakeRecv
    <2>4. s.msg = z.msg
      <3>1. CASE s = [z EXCEPT !.stat = "PEND_WAIT"]
        BY <3>1 DEF RecvHandle
      <3>2. CASE s = z \/ s = RecvOver(z)
        BY <3>2, RecvEndings
      <3> QED  BY <2>2, <2>3, <3>1, <3>2
    <2>5. s.msg = rh[cur[t]].msg /\ l \notin {"fill_rh", "fill_sh"}
      BY <2>2, <2>3, <2>4
    <2> QED  BY <2>1, <2>3, <2>5, OrderOnRecv
  <1> QED  BY <1>1, <1>2 DEF WaitStep

\* The same for a test.
LEMMA OrderRequests ==
  ASSUME Good, Plain, Ordered, NEW t \in Nodes, RequestStep(t)
  PROVE  Ordered'
  <1>1. pc[t] \in CarefulLocs
    BY DEF Plain, Ongoing
  <1>2. pc[t] \notin {"free_test_sh", "free_test_rh", "cancel_sh", "cancel_rh", "free_sh", "free_rh",
                      "enter_free_test_sh"}
    BY <1>1 DEF CarefulLocs
  <1>3. TestSendMatched(t, "test_sh") \/ TestSendBuffered(t, "test_sh") \/ TestSendPending(t, "test_sh")
        \/ TestRecv(t, "test_rh")
    BY <1>2 DEF RequestStep, TestSendMatched, TestSendBuffered, TestSendPending, TestRecv,
                CancelSend, CancelRecv, FreeSend, FreeSendTest, FreeRecv, AtSend
  <1>4. CASE TestSendMatched(t, "test_sh") \/ TestSendBuffered(t, "test_sh")
    <2>1. pc[t] \in SendLocs \ {"fill_rh"}
      BY <1>4 DEF TestSendMatched, TestSendBuffered, AtSend, SendLocs
    <2>2. PICK z \in SendHandle : z = sh[cur[t]]
      BY <2>1, OwnSend
    <2>3. PICK s : /\ OnSend(t, s, "idle")
                   /\ s = SendOver(sh[cur[t]]) \/ s = SendLeft(sh[cur[t]])
      BY <1>4 DEF TestSendMatched, TestSendBuffered, Tested
    <2>4. s.msg = z.msg /\ s.dest = z.dest /\ s.tag = z.tag
      BY <2>2, <2>3, Endings
    <2>5. s.msg = sh[cur[t]].msg /\ s.dest = sh[cur[t]].dest /\ s.tag = sh[cur[t]].tag
      BY <2>2, <2>4
    <2> QED  BY <2>1, <2>3, <2>5, OrderOnSend
  <1>5. CASE TestSendPending(t, "test_sh")
    <2>1. pc[t] = "test_sh" /\ pc' = [pc EXCEPT ![t] = "idle"]
          /\ UNCHANGED <<sh, rh, sq, rq, cur, found, sent, posted, matched>>
      BY <1>5 DEF TestSendPending, AtSend, handles, queues, history
    <2>2. ~Taking(t) /\ ~Taking(t)' /\ \A u \in Nodes : u # t => pc'[u] = pc[u]
      BY <2>1 DEF Taking, Good, Types
    <2>3. (\A x \in SH : SameSend(x)) /\ \A x \in RH : SameRecv(x)
      BY <2>1 DEF SameSend, SameRecv
    <2>4. UNCHANGED <<sq, rq, sent, posted, matched>> /\ cur' = cur /\ found' = found
      BY <2>1
    <2> QED  BY <2>2, <2>3, <2>4, OrderOwn
  <1>6. CASE TestRecv(t, "test_rh")
    <2>1. pc[t] \in RecvLocs \ {"fill_sh"}
      BY <1>6 DEF TestRecv, RecvLocs
    <2>2. PICK z \in RecvHandle : z = rh[cur[t]]
      BY <2>1, OwnRecv
    <2>3. PICK s : OnRecv(t, s, "idle") /\ (s = rh[cur[t]] \/ s = RecvOver(rh[cur[t]]))
      BY <1>6 DEF TestRecv
    <2>4. s.msg = z.msg
      BY <2>2, <2>3, RecvEndings
    <2>5. s.msg = rh[cur[t]].msg
      BY <2>2, <2>4
    <2> QED  BY <2>1, <2>3, <2>5, OrderOnRecv
  <1> QED  BY <1>3, <1>4, <1>5, <1>6

\* The calls of a program: a new handle has not been started.
LEMMA OrderCalls ==
  ASSUME Good, Plain, Ordered, NEW t \in Nodes, ProgramStep(t)
  PROVE  Ordered'
  <1>1. /\ sh \in [SH -> SendHandle] /\ rh \in [RH -> RecvHandle] /\ nsh \in [Nodes -> Nat]
        /\ nrh \in [Nodes -> Nat] /\ pc \in [Nodes -> Locations] /\ cur \in [Nodes -> Handles]
    BY DEF Good, Types
  <1>2. ASSUME NEW c \in SendCalls, NEW sys \in BOOLEAN, InitSend(t, c, sys) PROVE Ordered'
    <2>1. PICK g : g = <<t, nsh[t] + 1>>
      OBVIOUS
    <2>2. /\ pc[t] = "idle" /\ pc' = [pc EXCEPT ![t] = IF c.type = "PERSISTENT" THEN "idle" ELSE "start_sh"]
          /\ cur' = [cur EXCEPT ![t] = g]
          /\ UNCHANGED <<rh, sq, rq, found, sent, posted, matched>>
      BY <1>2, <2>1 DEF InitSend, Goto, queues, history
    <2>3. \A x \in SH : x # g => sh'[x] = sh[x]
      <3>1. PICK s : sh' = [sh EXCEPT ![g] = s]
        BY <1>2, <2>1 DEF InitSend
      <3> QED  BY <1>1, <3>1
    <2>4. \A x \in SH : sh[x].stat # "NONE" => x # g
      <3>1. g[1] = t /\ g[2] = nsh[t] + 1 /\ nsh[t] \in Nat
        BY <1>1, <2>1
      <3>2. g \in SH => sh[g] = NoSend
        BY <3>1 DEF Good, Unborn
      <3> QED  BY <3>2 DEF NoSend
    <2>5. (\A x \in SH : sh[x].stat # "NONE" => SameSend(x)) /\ \A x \in RH : SameRecv(x)
      BY <2>2, <2>3, <2>4 DEF SameSend, SameRecv
    <2>6. ~Taking(t) /\ ~Taking(t)' /\ \A u \in Nodes : u # t => pc'[u] = pc[u] /\ cur'[u] = cur[u]
      BY <1>1, <2>2 DEF Taking
    <2>7. UNCHANGED <<sq, rq, sent, posted, matched>> /\ found' = found
      BY <2>2
    <2> QED  BY <2>5, <2>6, <2>7, OrderOwn
  <1>3. ASSUME NEW c \in RecvCalls, InitRecv(t, c) PROVE Ordered'
    <2>1. PICK g : g = <<t, nrh[t] + 1>>
      OBVIOUS
    <2>2. /\ pc[t] = "idle" /\ pc' = [pc EXCEPT ![t] = IF c.type = "INIT" THEN "idle" ELSE "start_rh"]
          /\ cur' = [cur EXCEPT ![t] = g]
          /\ UNCHANGED <<sh, sq, rq, found, sent, posted, matched>>
      BY <1>3, <2>1 DEF InitRecv, Goto, queues, history
    <2>3. \A x \in RH : x # g => rh'[x] = rh[x]
      <3>1. PICK s : rh' = [rh EXCEPT ![g] = s]
        BY <1>3, <2>1 DEF InitRecv
      <3> QED  BY <1>1, <3>1
    <2>4. \A x \in RH : rh[x].stat # "NONE" => x # g
      <3>1. g[1] = t /\ g[2] = nrh[t] + 1 /\ nrh[t] \in Nat
        BY <1>1, <2>1
      <3>2. g \in RH => rh[g] = NoRecv
        BY <3>1 DEF Good, Unborn
      <3> QED  BY <3>2 DEF NoRecv
    <2>5. (\A x \in RH : rh[x].stat # "NONE" => SameRecv(x)) /\ \A x \in SH : SameSend(x)
      BY <2>2, <2>3, <2>4 DEF SameSend, SameRecv
    <2>6. ~Taking(t) /\ ~Taking(t)' /\ \A u \in Nodes : u # t => pc'[u] = pc[u] /\ cur'[u] = cur[u]
      BY <1>1, <2>2 DEF Taking
    <2>7. UNCHANGED <<sq, rq, sent, posted, matched>> /\ found' = found
      BY <2>2
    <2> QED  BY <2>5, <2>6, <2>7, OrderOwn
  <1>4. ASSUME NEW l \in Locations \ {"fill_rh", "fill_sh"}, NEW what, NEW h, CallOn(t, what, h, l)
        PROVE  Ordered'
    <2>1. /\ pc[t] = "idle" /\ pc' = [pc EXCEPT ![t] = l] /\ cur' = [cur EXCEPT ![t] = h]
          /\ UNCHANGED <<sh, rh, sq, rq, found, sent, posted, matched>>
      BY <1>4 DEF CallOn, Goto, handles, queues, history
    <2>2. ~Taking(t) /\ ~Taking(t)' /\ \A u \in Nodes : u # t => pc'[u] = pc[u] /\ cur'[u] = cur[u]
      BY <1>1, <2>1 DEF Taking
    <2>3. (\A x \in SH : SameSend(x)) /\ \A x \in RH : SameRecv(x)
      BY <2>1 DEF SameSend, SameRecv
    <2>4. UNCHANGED <<sq, rq, sent, posted, matched>> /\ found' = found
      BY <2>1
    <2> QED  BY <2>2, <2>3, <2>4, OrderOwn
  <1>5. \A l \in {"start_sh", "enter_wait_sh", "test_sh", "cancel_sh", "free_sh", "start_rh",
                  "enter_wait_rh", "test_rh", "cancel_rh", "free_rh"} :
          l \in Locations \ {"fill_rh", "fill_sh"}
    BY DEF Locations, SendLocs, RecvLocs
  <1>6. ASSUME NEW h \in SH, \/ CallStartSend(t, h) \/ CallWaitSend(t, h) \/ CallTestSend(t, h)
                             \/ CallCancelSend(t, h) \/ CallFreeSend(t, h)
        PROVE  Ordered'
    <2>1. PICK what \in {"start", "wait", "test", "cancel", "free"}, l \in {"start_sh", "enter_wait_sh", "test_sh", "cancel_sh", "free_sh"} :
            CallOn(t, what, h, l)
      BY <1>6 DEF CallStartSend, CallWaitSend, CallTestSend, CallCancelSend, CallFreeSend
    <2> QED  BY <1>4, <1>5, <2>1
  <1>7. ASSUME NEW r \in RH, \/ CallStartRecv(t, r) \/ CallWaitRecv(t, r) \/ CallTestRecv(t, r)
                             \/ CallCancelRecv(t, r) \/ CallFreeRecv(t, r)
        PROVE  Ordered'
    <2>1. PICK what \in {"start", "wait", "test", "cancel", "free"}, l \in {"start_rh", "enter_wait_rh", "test_rh", "cancel_rh", "free_rh"} :
            CallOn(t, what, r, l)
      BY <1>7 DEF CallStartRecv, CallWaitRecv, CallTestRecv, CallCancelRecv, CallFreeRecv
    <2> QED  BY <1>4, <1>5, <2>1
  <1>8. ASSUME NEW c \in SendCalls, InitSendFails(t, c) PROVE Ordered'
    <2>1. UNCHANGED <<sh, rh, sq, rq, pc, cur, found, sent, posted, matched>> /\ pc[t] = "idle"
      BY <1>8 DEF InitSendFails, handles, queues, thread, history
    <2>2. ~Taking(t) /\ ~Taking(t)'
      BY <2>1 DEF Taking
    <2>3. (\A x \in SH : SameSend(x)) /\ \A x \in RH : SameRecv(x)
      BY <2>1 DEF SameSend, SameRecv
    <2>4. UNCHANGED <<sq, rq, sent, posted, matched>> /\ pc' = pc /\ cur' = cur /\ found' = found
      BY <2>1
    <2> QED  BY <2>2, <2>3, <2>4, OrderOwn
  <1> QED  BY <1>2, <1>3, <1>6, <1>7, <1>8 DEF ProgramStep

\* Every step of a careful program keeps the order.
LEMMA OrderStep ==
  ASSUME Careful, Good, Plain, Ordered, [Next]_vars
  PROVE  Ordered'
  <1>1. CASE UNCHANGED vars
    <2>1. UNCHANGED <<sq, rq, sent, posted, matched>> /\ UNCHANGED <<sh, rh, pc, cur, found>>
      BY <1>1 DEF vars
    <2>2. (\A x \in SH : SameSend(x)) /\ \A x \in RH : SameRecv(x)
      BY <2>1 DEF SameSend, SameRecv
    <2>3. \A u \in Nodes : /\ Taking(u)' <=> Taking(u)
                           /\ Taking(u) => pc'[u] = pc[u] /\ cur'[u] = cur[u] /\ found'[u] = found[u]
      BY <2>1 DEF Taking
    <2> QED  BY <2>1, <2>2, <2>3, OrderKept
  <1>2. ASSUME NEW t \in Nodes, StartStep(t) PROVE Ordered'
    BY <1>2, PlainNoCrash, OrderStartSendUnmatched, OrderStartSendMatched, OrderFillRecv,
       OrderStartRecvUnmatched, OrderStartRecvMatched, OrderFillSend DEF StartStep
  <1>3. ASSUME NEW t \in Nodes, SpuriousWakeup(t) PROVE Ordered'
    <2>1. PICK l \in {"wake_sh", "wake_rh"} :
            /\ pc[t] \in {"sleep_sh", "sleep_rh"} /\ pc' = [pc EXCEPT ![t] = l]
            /\ UNCHANGED <<sh, rh, sq, rq, cur, found, sent, posted, matched>>
      BY <1>3 DEF SpuriousWakeup, Goto, handles, queues, history
    <2>2. ~Taking(t) /\ ~Taking(t)' /\ \A u \in Nodes : u # t => pc'[u] = pc[u]
      BY <2>1 DEF Taking, Good, Types
    <2>3. (\A x \in SH : SameSend(x)) /\ \A x \in RH : SameRecv(x)
      BY <2>1 DEF SameSend, SameRecv
    <2>4. UNCHANGED <<sq, rq, sent, posted, matched>> /\ cur' = cur /\ found' = found
      BY <2>1
    <2> QED  BY <2>2, <2>3, <2>4, OrderOwn
  <1> QED  BY <1>1, <1>2, <1>3, OrderWaits, OrderRequests, OrderCalls DEF Next, LibraryStep

\* Nothing has been started in the beginning.
LEMMA InitOrdered == Init => Ordered
  <1> SUFFICES ASSUME Init PROVE Ordered
    OBVIOUS
  <1>1. /\ sq = [n \in Nodes |-> <<>>] /\ rq = [n \in Nodes |-> <<>>]
        /\ sent = [n \in Nodes |-> <<>>] /\ posted = [n \in Nodes |-> <<>>]
        /\ pc = [n \in Nodes |-> "idle"] /\ matched = {}
    BY DEF Init, tmpi_intra_init
  <1>2. \A n \in Nodes : ~Taking(n)
    BY <1>1 DEF Taking
  <1>3. \A n \in Nodes : 1..Len(sq[n]) = {} /\ 1..Len(rq[n]) = {} /\ 1..Len(sent[n]) = {} /\ 1..Len(posted[n]) = {}
    <2>1. 1..Len(<< >>) = {}
      OBVIOUS
    <2>2. \A n \in Nodes : sq[n] = << >> /\ rq[n] = << >> /\ sent[n] = << >> /\ posted[n] = << >>
      BY <1>1
    <2> QED  BY <2>1, <2>2
  <1>4. QueuesInOrder
    BY <1>3 DEF QueuesInOrder
  <1>5. Accounted
    BY <1>3 DEF Accounted
  <1>6. NonePassed /\ TakenInOrder /\ NonOvertaking
    BY <1>1, <1>2 DEF NonePassed, TakenInOrder, NonOvertaking
  <1> QED  BY <1>4, <1>5, <1>6 DEF Ordered

\* What is left behind when a receive is served would not have done for it, so of two
\* receives that ask for the same the earlier one is not left behind.
LEMMA OrderedIsInOrder ==
  ASSUME Good, Plain, Ordered
  PROVE  InOrder
  <1>1. ASSUME NEW m \in matched, NEW k \in 1..(m.recv[2] - 1),
               posted[m.recv[1]][k] = posted[m.recv[1]][m.recv[2]]
        PROVE  \E e \in matched : e.recv = <<m.recv[1], k>>
    <2>1. InHistory(m.msg, m.recv) /\ Types
      BY AllInHistory DEF Good
    <2>2. m.recv[1] \in Nodes /\ m.recv[2] \in 1..Len(posted[m.recv[1]]) /\ Len(posted[m.recv[1]]) \in Nat
      BY <2>1 DEF InHistory, Types
    <2>3. k \in 1..Len(posted[m.recv[1]]) /\ k < m.recv[2]
      BY <2>2
    <2>4. Fits(posted[m.recv[1]][k], m.msg[1], sent[m.msg[1]][m.msg[2]].tag)
      BY <1>1 DEF Good, Matched, ExactlyOnce
    <2>5. ASSUME NEW r, PassedRecv(m.msg, m.recv, r), RecvOf(r) = <<m.recv[1], k>> PROVE FALSE
      <3>1. r[1] = m.recv[1] /\ rh[r].msg = k
        BY <2>5 DEF RecvOf
      <3> QED  BY <2>3, <2>4, <2>5, <3>1 DEF PassedRecv
    <2>6. \A u \in Nodes : Taking(u) => PassedRecv(m.msg, m.recv, TakenRecv(u))
      BY DEF Ordered, NonePassed
    <2>7. \A r \in RH : InQueue(rq[m.recv[1]], r) => PassedRecv(m.msg, m.recv, r)
      BY <2>2 DEF Ordered, NonePassed
    <2>8. \/ \E e \in matched : e.recv = <<m.recv[1], k>>
          \/ \E u \in Nodes : Taking(u) /\ RecvOf(TakenRecv(u)) = <<m.recv[1], k>>
          \/ \E r \in RH : InQueue(rq[m.recv[1]], r) /\ RecvOf(r) = <<m.recv[1], k>>
      BY <2>2, <2>3 DEF Ordered, Accounted
    <2> QED  BY <2>5, <2>6, <2>7, <2>8
  <1>2. ReceivesInOrder
    BY <1>1 DEF ReceivesInOrder
  <1> QED  BY <1>2 DEF InOrder, Ordered

\* Messages of careful programs do not overtake each other: of two sends of one node that
\* are alike the earlier one goes to an earlier receive, and of two receives that ask for
\* the same the earlier one is served first (intra_sr.c:540, 603: both sides search the
\* queues from their heads, under the lock of the channel).
THEOREM MessagesInOrder ==
  ASSUME Careful
  PROVE  Safe => []InOrder
  <1>1. Init => Ordered
    BY InitOrdered
  <1>2. Good /\ Plain /\ Ordered /\ [Next]_vars => Ordered'
    BY OrderStep
  <1>3. Good /\ Plain /\ Ordered => InOrder
    BY OrderedIsInOrder
  <1> QED  BY <1>1, <1>2, <1>3, CarefulInvariance, PTL DEF Safe

=============================================================================
