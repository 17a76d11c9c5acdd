---------------------------- MODULE BufferProofs ----------------------------
(***************************************************************************)
(* Two parts that the sends and receives rest on.  The calls on arrays of  *)
(* requests report what they release, for arrays of every length, with     *)
(* completions at any time between two looks.  The blocks of mbuffer.c     *)
(* tile their buffer, whatever is allocated and freed in whatever order    *)
(* and whatever the sizes are.                                             *)
(***************************************************************************)
EXTENDS Requests, MBuffer, SequenceTheorems, WellFoundedInduction, TLAPS

(***************************************************************************)
(* Arrays of requests                                                      *)
(***************************************************************************)
ReqStates == {"null", "inactive", "pending", "done"}

RequestsTypeOK ==
  /\ req \in [Reqs -> ReqStates]
  /\ op \in Ops \cup {NoCall} /\ phase \in {NoCall, "scan", "rescan"}
  /\ pos \in 0..NReq /\ flag \in BOOLEAN
  /\ out \in Seq(Reqs) /\ took \subseteq Reqs

AnyOps == {"Testany", "Waitany"}
SomeOps == {"Testsome", "Waitsome"}

Increasing == \A j, k \in 1..Len(out) : j < k => out[j] < out[k]
\* What has been reported was found behind the place where the call is.
Behind == \A k \in 1..Len(out) : out[k] < pos

\* TakesWhatItReports while the call goes on.
ReportsSoFar ==
  op \in AnyOps \cup SomeOps =>
    /\ took \subseteq Reported
    /\ Reported \subseteq took \cup (IF phase = "rescan" THEN {0} ELSE {})
    /\ Increasing /\ Behind

\* The calls that take one: nothing before the first that is done, and then it is over.
OneAtMost ==
  /\ op \in AnyOps /\ phase = "scan" => (flag <=> out # <<>>) /\ (out # <<>> => pos = NReq)
  /\ op \in AnyOps => Len(out) <= 1

\* AllMeansAll for the part of the array that has been gone through.
AllBehind ==
  op = "Waitall" \/ (op = "Testall" /\ flag) =>
    \A i \in Reqs : i < pos => req[i] \notin {"pending", "done"}

RequestsInv == RequestsTypeOK /\ ReportsSoFar /\ OneAtMost /\ AllBehind

----------------------------------------------------------------------------
\* tmpi_Test takes the completion of a request exactly when it sets the flag.
LEMMA TestTakes ==
  ASSUME RequestsTypeOK, NEW i \in Reqs, tmpi_Test(i), NEW f \in BOOLEAN, f = FALSE
  PROVE  /\ req' \in [Reqs -> ReqStates] /\ took' \subseteq Reqs
         /\ TestFlag(i, f) \in BOOLEAN
         /\ took' = IF TestFlag(i, f) THEN took \cup {i} ELSE took
         /\ \A j \in Reqs : j # i => req'[j] = req[j]
         /\ req'[i] # "done"
         /\ TestFlag(i, TRUE) => req'[i] \notin {"pending", "done"}
  BY DEF RequestsTypeOK, tmpi_Test, TestFlag, Take, Keep, AfterTake, ReqStates

\* One more index at the end of those reported.
LEMMA ReportOneMore ==
  ASSUME RequestsTypeOK, pos < NReq, Increasing, Behind, out' = Append(out, pos), pos' = pos + 1
  PROVE  /\ out' \in Seq(Reqs) /\ Reported' = Reported \cup {pos} /\ Increasing' /\ Behind'
  <1>1. pos \in Reqs /\ pos \in Nat
    BY RequestsAssumption DEF RequestsTypeOK, Reqs
  <1>2. out \in Seq(Reqs) /\ Len(out) \in Nat
    BY DEF RequestsTypeOK
  <1>3. /\ out' \in Seq(Reqs) /\ Len(out') = Len(out) + 1
        /\ \A k \in 1..Len(out) : out'[k] = out[k] /\ out[k] \in Reqs
        /\ out'[Len(out) + 1] = pos
    BY <1>1, <1>2, AppendProperties
  <1>4. 1..Len(out') = (1..Len(out)) \cup {Len(out) + 1}
    BY <1>2, <1>3
  <1>5. Reported' = Reported \cup {pos}
    BY <1>3, <1>4 DEF Reported
  <1>6. Increasing'
    BY <1>1, <1>2, <1>3, <1>4, RequestsAssumption DEF Increasing, Behind, Reqs
  <1>7. Behind'
    BY <1>1, <1>2, <1>3, <1>4, RequestsAssumption DEF Behind, Reqs
  <1> QED  BY <1>3, <1>5, <1>6, <1>7

\* No call is running in the beginning.
LEMMA RequestsInitInv == RequestsInit => RequestsInv
  BY RequestsAssumption DEF RequestsInit, RequestsInv, RequestsTypeOK, ReqStates, Reqs, ReportsSoFar,
     OneAtMost, AllBehind, AnyOps, SomeOps, NoCall, Ops

\* The invariant gives what the calls on arrays of requests promise.
LEMMA RequestsInvIsSound == RequestsInv => ArraysSound
  <1> SUFFICES ASSUME RequestsInv PROVE ArraysSound
    OBVIOUS
  <1>1. TakesWhatItReports
    BY DEF TakesWhatItReports, RequestsInv, ReportsSoFar, OneAtMost, AnyOps, SomeOps, Increasing
  <1>2. AllMeansAll
    <2> SUFFICES ASSUME AtEnd, op = "Waitall" \/ (op = "Testall" /\ flag), NEW i \in Reqs
                 PROVE  req[i] \notin {"pending", "done"}
      BY DEF AllMeansAll
    <2>1. pos = NReq
      BY DEF AtEnd
    <2>2. i < pos
      BY <2>1, RequestsAssumption DEF Reqs
    <2> QED  BY <2>2 DEF RequestsInv, AllBehind
  <1> QED  BY <1>1, <1>2 DEF ArraysSound

----------------------------------------------------------------------------
\* A call that begins, ends or only starts requests, and a completion.
LEMMA CallAndComplete ==
  ASSUME RequestsInv,
         \/ \E o \in Ops : CallReqs(o)
         \/ tmpi_Startall \/ ReturnReqs
         \/ \E i \in Reqs : CompleteReq(i)
  PROVE  RequestsInv'
  <1> USE RequestsAssumption DEF RequestsInv, RequestsTypeOK, ReqStates
  <1>1. ASSUME NEW o \in Ops, CallReqs(o) PROVE RequestsInv'
    BY <1>1 DEF CallReqs, ReportsSoFar, OneAtMost, AllBehind, AnyOps, SomeOps, Reported, Increasing,
       Behind, Reqs, Ops
  <1>2. CASE tmpi_Startall
    <2>1. op = "Startall" /\ op' = op /\ UNCHANGED <<phase, flag, out, took>> /\ pos' = pos + 1 /\ pos < NReq
      BY <1>2 DEF tmpi_Startall, Scanning, Advance
    <2>2. req' \in [Reqs -> ReqStates]
      BY <1>2 DEF tmpi_Startall
    <2> QED  BY <2>1, <2>2 DEF ReportsSoFar, OneAtMost, AllBehind, AnyOps, SomeOps
  <1>3. CASE ReturnReqs
    <2>1. op' = NoCall /\ phase' = NoCall /\ pos' = 0 /\ flag' = FALSE /\ out' = <<>> /\ took' = {}
          /\ req' = req
      BY <1>3 DEF ReturnReqs
    <2>2. RequestsTypeOK'
      <3>1. 0 \in 0..NReq /\ <<>> \in Seq(Reqs) /\ {} \subseteq Reqs
        OBVIOUS
      <3> QED  BY <2>1, <3>1
    <2>3. ReportsSoFar' /\ OneAtMost' /\ AllBehind'
      BY <2>1 DEF NoCall, ReportsSoFar, OneAtMost, AllBehind, AnyOps, SomeOps
    <2> QED  BY <2>2, <2>3
  <1>4. ASSUME NEW i \in Reqs, CompleteReq(i) PROVE RequestsInv'
    <2>1. UNCHANGED <<op, phase, pos, flag, out, took>> /\ req[i] = "pending"
          /\ req' = [req EXCEPT ![i] = "done"]
      BY <1>4 DEF CompleteReq
    <2>2. RequestsTypeOK'
      BY <2>1
    <2>3. ReportsSoFar' /\ OneAtMost'
      BY <2>1 DEF ReportsSoFar, OneAtMost, Reported, Increasing, Behind
    <2>4. AllBehind'
      BY <2>1 DEF AllBehind
    <2> QED  BY <2>2, <2>3, <2>4
  <1> QED  BY <1>1, <1>2, <1>3, <1>4

\* MPI_Waitall and MPI_Testall go through the array from its start.
LEMMA TestallWaitall ==
  ASSUME RequestsInv, tmpi_Waitall \/ tmpi_Testall
  PROVE  RequestsInv'
  <1>1. /\ op \in {"Waitall", "Testall"} /\ op' = op /\ pos' = pos + 1 /\ pos < NReq
        /\ UNCHANGED <<phase, out>>
    BY DEF tmpi_Waitall, tmpi_Testall, Scanning, Advance
  <1>2. pos \in Reqs
    BY <1>1, RequestsAssumption DEF RequestsInv, RequestsTypeOK, Reqs
  <1>3. tmpi_Test(pos)
    BY DEF tmpi_Waitall, tmpi_Testall, tmpi_Wait
  <1>4. /\ req' \in [Reqs -> ReqStates] /\ took' \subseteq Reqs
        /\ \A j \in Reqs : j # pos => req'[j] = req[j]
        /\ req'[pos] # "done"
        /\ TestFlag(pos, TRUE) => req'[pos] \notin {"pending", "done"}
    BY <1>2, <1>3, TestTakes DEF RequestsInv
  <1>5. flag' \in BOOLEAN
    BY <1>2 DEF tmpi_Waitall, tmpi_Testall, RequestsInv, RequestsTypeOK, TestFlag
  <1>6. RequestsTypeOK'
    BY <1>1, <1>4, <1>5, RequestsAssumption DEF RequestsInv, RequestsTypeOK
  <1>7. ReportsSoFar' /\ OneAtMost'
    BY <1>1 DEF ReportsSoFar, OneAtMost, AnyOps, SomeOps
  <1>8. AllBehind'
    <2> SUFFICES ASSUME op = "Waitall" \/ (op = "Testall" /\ flag'), NEW i \in Reqs, i < pos'
                 PROVE  req'[i] \notin {"pending", "done"}
      BY <1>1 DEF AllBehind
    <2>1. CASE i # pos
      <3>1. i < pos
        BY <1>1, <2>1, RequestsAssumption DEF RequestsInv, RequestsTypeOK, Reqs
      <3>2. op = "Testall" => flag
        BY <1>1 DEF tmpi_Waitall, tmpi_Testall, Scanning, RequestsInv, RequestsTypeOK
      <3> QED  BY <1>4, <2>1, <3>1, <3>2 DEF RequestsInv, AllBehind
    <2>2. CASE i = pos
      <3>1. op = "Testall" => TestFlag(pos, TRUE)
        BY <1>1 DEF tmpi_Waitall, tmpi_Testall, Scanning, RequestsInv, RequestsTypeOK
      <3>2. op = "Waitall" => req'[pos] \notin {"pending", "done"}
        BY <1>1, <1>2 DEF tmpi_Waitall, tmpi_Testall, Scanning, tmpi_Wait, tmpi_Test, Take, Keep,
           AfterTake, RequestsInv, RequestsTypeOK, ReqStates
      <3> QED  BY <1>4, <2>2, <3>1, <3>2
    <2> QED  BY <2>1, <2>2
  <1> QED  BY <1>6, <1>7, <1>8 DEF RequestsInv

\* The calls that take the first request that is done.
LEMMA TestanyStep ==
  ASSUME RequestsInv, tmpi_Testany
  PROVE  RequestsInv'
  <1>1. /\ op \in AnyOps /\ phase = "scan" /\ pos < NReq /\ tmpi_Test(pos) /\ flag' = TestFlag(pos, flag)
        /\ op' = op /\ phase' = phase
        /\ IF flag' THEN out' = <<pos>> /\ pos' = NReq ELSE out' = out /\ pos' = pos + 1
    BY DEF tmpi_Testany, Scanning, AnyOps, Advance
  <1>2. pos \in Reqs /\ pos \in Nat /\ NReq \in Nat
    BY <1>1, RequestsAssumption DEF RequestsInv, RequestsTypeOK, Reqs
  <1>3. out = <<>> /\ flag = FALSE /\ Len(out) = 0
    BY <1>1, <1>2 DEF RequestsInv, RequestsTypeOK, OneAtMost
  <1>4. took = {} /\ Reported = {}
    BY <1>1, <1>3 DEF RequestsInv, ReportsSoFar, Reported
  <1>5. /\ req' \in [Reqs -> ReqStates] /\ took' \subseteq Reqs /\ flag' \in BOOLEAN
        /\ took' = IF flag' THEN took \cup {pos} ELSE took
    BY <1>1, <1>2, <1>3, TestTakes DEF RequestsInv
  <1>6. CASE flag'
    <2>1. out' = <<pos>> /\ pos' = NReq /\ took' = {pos} /\ Reported' = {pos} /\ Len(out') = 1
      <3>1. out' = <<pos>> /\ pos' = NReq /\ took' = {pos}
        BY <1>1, <1>4, <1>5, <1>6
      <3>2. Len(out') = 1 /\ out'[1] = pos /\ 1..1 = {1}
        BY <3>1
      <3> QED  BY <3>1, <3>2 DEF Reported
    <2>2. out' \in Seq(Reqs) /\ out' # <<>>
      BY <1>2, <2>1
    <2>3. RequestsTypeOK'
      BY <1>1, <1>2, <1>5, <2>1, <2>2 DEF RequestsInv, RequestsTypeOK
    <2>4. Increasing' /\ Behind'
      <3>1. \A k \in 1..Len(out') : k = 1 /\ out'[k] = pos
        BY <2>1
      <3> QED  BY <1>1, <1>2, <2>1, <3>1 DEF Increasing, Behind
    <2>5. ReportsSoFar' /\ OneAtMost' /\ AllBehind'
      BY <1>1, <1>6, <2>1, <2>2, <2>4 DEF ReportsSoFar, OneAtMost, AllBehind, AnyOps
    <2> QED  BY <2>3, <2>5 DEF RequestsInv
  <1>7. CASE ~flag'
    <2>1. out' = out /\ pos' = pos + 1 /\ took' = {}
      BY <1>1, <1>4, <1>5, <1>7
    <2>2. RequestsTypeOK'
      BY <1>1, <1>2, <1>5, <2>1 DEF RequestsInv, RequestsTypeOK
    <2>3. Reported' = {} /\ Increasing' /\ Behind'
      BY <1>3, <2>1 DEF Increasing, Behind, Reported
    <2>4. ReportsSoFar' /\ OneAtMost' /\ AllBehind'
      BY <1>1, <1>3, <1>7, <2>1, <2>3 DEF ReportsSoFar, OneAtMost, AllBehind, AnyOps
    <2> QED  BY <2>2, <2>4 DEF RequestsInv
  <1> QED  BY <1>6, <1>7

\* The calls that take all that are done, in their first and in their second pass.
LEMMA TestsomeStep ==
  ASSUME RequestsInv, tmpi_Testsome \/ tmpi_Waitsome
  PROVE  RequestsInv'
  <1>1. /\ op \in SomeOps /\ pos < NReq /\ tmpi_Test(pos) /\ flag' = TestFlag(pos, FALSE)
        /\ op' = op /\ phase' = phase /\ pos' = pos + 1
        /\ out' = IF flag' THEN Append(out, pos) ELSE out
    BY DEF tmpi_Testsome, tmpi_Waitsome, Scanning, SomeOps, Advance
  <1>2. pos \in Reqs /\ pos \in Nat /\ NReq \in Nat /\ pos' \in 0..NReq
    BY <1>1, RequestsAssumption DEF RequestsInv, RequestsTypeOK, Reqs
  <1>3. /\ took \subseteq Reported /\ Increasing /\ Behind
        /\ Reported \subseteq took \cup (IF phase = "rescan" THEN {0} ELSE {})
    BY <1>1 DEF RequestsInv, ReportsSoFar
  <1>4. /\ req' \in [Reqs -> ReqStates] /\ took' \subseteq Reqs /\ flag' \in BOOLEAN
        /\ took' = IF flag' THEN took \cup {pos} ELSE took
    BY <1>1, <1>2, TestTakes DEF RequestsInv
  <1>5. /\ out' \in Seq(Reqs) /\ Reported' = (IF flag' THEN Reported \cup {pos} ELSE Reported)
        /\ Increasing' /\ Behind'
    <2>1. CASE flag'
      BY <1>1, <1>3, <2>1, ReportOneMore DEF RequestsInv
    <2>2. CASE ~flag'
      <3>1. out' = out /\ out \in Seq(Reqs) /\ \A k \in 1..Len(out) : out[k] \in Reqs
        BY <1>1, <2>2, ElementOfSeq DEF RequestsInv, RequestsTypeOK
      <3> QED  BY <1>1, <1>2, <1>3, <2>2, <3>1 DEF Reported, Increasing, Behind, Reqs
    <2> QED  BY <2>1, <2>2
  <1>6. RequestsTypeOK'
    BY <1>1, <1>2, <1>4, <1>5 DEF RequestsInv, RequestsTypeOK
  <1>7. ReportsSoFar'
    BY <1>1, <1>3, <1>4, <1>5 DEF ReportsSoFar
  <1>8. OneAtMost' /\ AllBehind'
    BY <1>1 DEF OneAtMost, AllBehind, SomeOps, AnyOps
  <1> QED  BY <1>6, <1>7, <1>8 DEF RequestsInv

\* Nothing was done: the first request is waited for.
LEMMA WaitFirst ==
  ASSUME RequestsInv, tmpi_Waitany
  PROVE  RequestsInv'
  <1>1. /\ op \in {"Waitany", "Waitsome"} /\ phase = "scan" /\ out = <<>> /\ tmpi_Test(0)
        /\ out' = <<0>> /\ phase' = "rescan" /\ pos' = 1 /\ op' = op /\ flag' = flag
    BY DEF tmpi_Waitany, tmpi_Wait
  <1>2. 0 \in Reqs /\ NReq \in Nat \ {0}
    BY RequestsAssumption DEF Reqs
  <1>3. took = {}
    BY <1>1 DEF RequestsInv, ReportsSoFar, Reported, AnyOps, SomeOps
  <1>4. req' \in [Reqs -> ReqStates] /\ took' \subseteq {0}
    BY <1>1, <1>2, <1>3, TestTakes DEF RequestsInv
  <1>5. out' \in Seq(Reqs) /\ Len(out') = 1 /\ out'[1] = 0 /\ out' # <<>>
    BY <1>1, <1>2
  <1>6. Reported' = {0} /\ Increasing' /\ Behind'
    BY <1>1, <1>5 DEF Reported, Increasing, Behind
  <1>7. RequestsTypeOK'
    BY <1>1, <1>2, <1>4, <1>5 DEF RequestsInv, RequestsTypeOK
  <1>8. ReportsSoFar' /\ OneAtMost' /\ AllBehind'
    BY <1>1, <1>4, <1>5, <1>6 DEF ReportsSoFar, OneAtMost, AllBehind
  <1> QED  BY <1>7, <1>8 DEF RequestsInv

\* Every step of a call, and every completion, keeps the invariant.
LEMMA RequestsStep == RequestsInv /\ [RequestsNext]_requests => RequestsInv'
  <1> SUFFICES ASSUME RequestsInv, [RequestsNext]_requests PROVE RequestsInv'
    OBVIOUS
  <1>1. CASE RequestsNext
    BY <1>1, CallAndComplete, TestallWaitall, TestanyStep, TestsomeStep, WaitFirst
       DEF RequestsNext, RequestsWork
  <1>2. CASE UNCHANGED requests
    BY <1>2 DEF requests, RequestsInv, RequestsTypeOK, ReportsSoFar, OneAtMost, AllBehind, Reported,
       Increasing, Behind
  <1> QED  BY <1>1, <1>2

\* The calls on arrays of requests, for an array of any length and completions at any
\* moment: the requests a call releases are those it reports, once each and in order, and
\* MPI_Waitall and MPI_Testall leave none behind.
THEOREM ArraysAreSound == RequestsSpec => []ArraysSound
  <1>1. RequestsInit => RequestsInv
    BY RequestsInitInv
  <1>2. RequestsInv /\ [RequestsNext]_requests => RequestsInv'
    BY RequestsStep
  <1>3. RequestsInv => ArraysSound
    BY RequestsInvIsSound
  <1> QED  BY <1>1, <1>2, <1>3, PTL DEF RequestsSpec

----------------------------------------------------------------------------
(***************************************************************************)
(* The message buffer                                                      *)
(***************************************************************************)
Header == [pre : Int, next : Int, free : BOOLEAN, size : Int]
Item == [area : Areas, at : Nat, len : Nat]

\* One area of n units with the headers h and the items I.
Tiles(h, n) ==
  \A x \in DOMAIN h :
    /\ h[x].size > 0 /\ x + h[x].size <= n
    /\ h[x].next = NIL => x + h[x].size = n
    /\ h[x].next # NIL => h[x].next = x + h[x].size /\ h[x].next \in DOMAIN h /\ h[h[x].next].pre = x
    /\ h[x].pre # NIL => h[x].pre \in DOMAIN h /\ h[h[x].pre].next = x

\* Two blocks do not overlap, however far apart they are in the list.
Apart(h) == \A x, y \in DOMAIN h : x < y => x + h[x].size <= y

Merged(h) == \A x \in DOMAIN h : h[x].free /\ h[x].next # NIL => ~h[h[x].next].free

\* The blocks that are not free are those of the items, each large enough for its item.
Holds(h, I) ==
  /\ \A x \in DOMAIN h : ~h[x].free <=> \E i \in I : i.at = x
  /\ \A i \in I : i.at \in DOMAIN h /\ Adjusted(i.len) <= h[i.at].size
  /\ \A i, j \in I : i.at = j.at => i = j

Headers(h, n) ==
  /\ n \in Nat /\ DOMAIN h \subseteq Nat /\ h \in [DOMAIN h -> Header]
  /\ n # 0 => 0 \in DOMAIN h

AreaOK(h, n, I) == Headers(h, n) /\ Tiles(h, n) /\ Apart(h) /\ Merged(h) /\ Holds(h, I)

ItemsOf(a) == {i \in items : i.area = a}

MBInv ==
  /\ areasize \in [Areas -> Nat] /\ items \subseteq Item
  /\ hdr = [a \in Areas |-> hdr[a]]
  /\ \A a \in Areas : AreaOK(hdr[a], areasize[a], ItemsOf(a))

----------------------------------------------------------------------------
(* One area. *)

\* A buffer before it is cut.
LEMMA WholeOK ==
  ASSUME NEW n \in Nat \ {0}
  PROVE  AreaOK(Whole(n), n, {})
  BY DEF AreaOK, Whole, Headers, Header, Tiles, Apart, Merged, Holds, NIL

\* A buffer that is not there, as before mb_init and after mb_detach_buffer.
LEMMA NoBlocksOK == AreaOK(NoBlocks, 0, {})
  BY DEF AreaOK, NoBlocks, Headers, Header, Tiles, Apart, Merged, Holds, NIL

\* A block that is handed out as it is.
LEMMA TakeOK ==
  ASSUME NEW h, NEW n, NEW I \in SUBSET Item, AreaOK(h, n, I), NEW x \in DOMAIN h, NEW i \in Item,
         h[x].free, i.at = x, h[x].size >= Adjusted(i.len)
  PROVE  AreaOK([h EXCEPT ![x].free = FALSE], n, I \cup {i})
  <1> DEFINE g == [h EXCEPT ![x].free = FALSE]
  <1> HIDE DEF g
  <1>0. n \in Nat /\ DOMAIN h \subseteq Nat /\ h \in [DOMAIN h -> Header] /\ (n # 0 => 0 \in DOMAIN h)
    BY DEF AreaOK, Headers
  <1>1. DOMAIN g = DOMAIN h /\ g \in [DOMAIN g -> Header]
    BY <1>0 DEF g, Header
  <1>2. \A y \in DOMAIN h : /\ g[y].pre = h[y].pre /\ g[y].next = h[y].next /\ g[y].size = h[y].size
                            /\ g[y].free <=> (y # x /\ h[y].free)
    BY <1>0 DEF g, Header
  <1>3. Headers(g, n)
    BY <1>0, <1>1 DEF Headers
  <1>8. Tiles(h, n) /\ Merged(h) /\ Holds(h, I)
    BY DEF AreaOK
  <1>4. Tiles(g, n)
    <2> SUFFICES ASSUME NEW y \in DOMAIN h
                 PROVE  /\ g[y].size > 0 /\ y + g[y].size <= n
                        /\ g[y].next = NIL => y + g[y].size = n
                        /\ g[y].next # NIL => g[y].next = y + g[y].size /\ g[y].next \in DOMAIN h
                                             /\ g[g[y].next].pre = y
                        /\ g[y].pre # NIL => g[y].pre \in DOMAIN h /\ g[g[y].pre].next = y
      BY <1>1 DEF Tiles
    <2>1. /\ h[y].size > 0 /\ y + h[y].size <= n
          /\ h[y].next = NIL => y + h[y].size = n
          /\ h[y].next # NIL => h[y].next = y + h[y].size /\ h[y].next \in DOMAIN h /\ h[h[y].next].pre = y
          /\ h[y].pre # NIL => h[y].pre \in DOMAIN h /\ h[h[y].pre].next = y
      BY <1>8 DEF Tiles
    <2> QED  BY <2>1, <1>2
  <1>5. Apart(g)
    BY <1>1, <1>2 DEF AreaOK, Apart
  <1>6. Merged(g)
    <2> SUFFICES ASSUME NEW y \in DOMAIN h, g[y].free, g[y].next # NIL PROVE ~g[g[y].next].free
      BY <1>1 DEF Merged
    <2>1. h[y].free /\ h[y].next # NIL /\ h[y].next \in DOMAIN h /\ g[y].next = h[y].next
      BY <1>2, <1>8 DEF Tiles
    <2>2. ~h[h[y].next].free
      BY <1>8, <2>1 DEF Merged
    <2> QED  BY <1>2, <2>1, <2>2
  <1>7. Holds(g, I \cup {i})
    <2>1. \A j \in I : j.at # x
      BY <1>8 DEF Holds
    <2>2. \A y \in DOMAIN g : ~g[y].free <=> \E j \in I \cup {i} : j.at = y
      BY <1>1, <1>2, <1>8 DEF Holds
    <2>3. \A j \in I \cup {i} : j.at \in DOMAIN g /\ Adjusted(j.len) <= g[j.at].size
      <3> SUFFICES ASSUME NEW j \in I \cup {i} PROVE j.at \in DOMAIN g /\ Adjusted(j.len) <= g[j.at].size
        OBVIOUS
      <3>1. j.at \in DOMAIN h /\ Adjusted(j.len) <= h[j.at].size
        <4>1. CASE j \in I
          BY <4>1, <1>8 DEF Holds
        <4>2. CASE j = i
          <5>1. Adjusted(i.len) \in Int /\ h[x].size \in Int
            BY <1>0 DEF Adjusted, BUF_HEADER_SIZE, Item, Header
          <5> QED  BY <4>2, <5>1
        <4> QED  BY <4>1, <4>2
      <3> QED  BY <3>1, <1>1, <1>2
    <2>4. \A j, k \in I \cup {i} : j.at = k.at => j = k
      BY <2>1, <1>8 DEF Holds
    <2> QED  BY <2>2, <2>3, <2>4 DEF Holds
  <1> QED  BY <1>3, <1>4, <1>5, <1>6, <1>7 DEF AreaOK, g

\* The header of a block that is cut.
LEMMA HeaderCut ==
  ASSUME NEW r \in Header, NEW v \in Int, NEW w \in Int
  PROVE  [r EXCEPT !.free = FALSE, !.next = v, !.size = w] \in Header
  BY DEF Header

\* The header of a block that has swallowed others.
LEMMA HeaderJoined ==
  ASSUME NEW r \in Header, NEW v \in Int, NEW w \in Int,
         NEW c, c = [r EXCEPT !.free = TRUE, !.size = v, !.next = w]
  PROVE  c \in Header /\ c.pre = r.pre /\ c.next = w /\ c.free /\ c.size = v
  BY DEF Header

\* The header of the block after it.
LEMMA HeaderBack ==
  ASSUME NEW r \in Header, NEW v \in Int
  PROVE  [r EXCEPT !.pre = v] \in Header
  BY DEF Header

\* What is left of a block becomes a block of its own.
LEMMA SplitOK ==
  ASSUME NEW h, NEW n, NEW I \in SUBSET Item, AreaOK(h, n, I), NEW x \in DOMAIN h, NEW i \in Item,
         h[x].free, i.at = x, h[x].size > Adjusted(i.len)
  PROVE  AreaOK(Split(h, x, i.len), n, I \cup {i})
  <1> DEFINE g == Split(h, x, i.len)
             w == Adjusted(i.len)
             y == x + w
             z == h[x].next
  <1> HIDE DEF g
  <1>0. n \in Nat /\ DOMAIN h \subseteq Nat /\ h \in [DOMAIN h -> Header] /\ (n # 0 => 0 \in DOMAIN h)
    BY DEF AreaOK, Headers
  <1>1. /\ w \in Nat /\ w > 0 /\ x \in Nat /\ y \in Nat /\ x < y /\ x # y /\ y < x + h[x].size
        /\ h[x].size \in Int /\ h[x].size - w > 0 /\ y + (h[x].size - w) = x + h[x].size
    <2>1. i.len \in Nat /\ x \in Nat /\ h[x].size \in Int
      BY <1>0 DEF Item, Header
    <2> QED  BY <2>1 DEF Adjusted, BUF_HEADER_SIZE
  <1>2. Tiles(h, n) /\ Apart(h) /\ Merged(h) /\ Holds(h, I)
    BY DEF AreaOK
  <1>3. y \notin DOMAIN h
    <2> SUFFICES ASSUME y \in DOMAIN h PROVE FALSE
      OBVIOUS
    <2>1. x + h[x].size <= y
      BY <1>1, <1>2 DEF Apart
    <2> QED  BY <1>1, <2>1
  <1>4. z # NIL => z \in DOMAIN h /\ z = x + h[x].size /\ h[z].pre = x /\ z # x /\ z # y /\ ~h[z].free
    <2> SUFFICES ASSUME z # NIL
                 PROVE  z \in DOMAIN h /\ z = x + h[x].size /\ h[z].pre = x /\ z # x /\ z # y /\ ~h[z].free
      OBVIOUS
    <2>1. z \in DOMAIN h /\ z = x + h[x].size /\ h[z].pre = x
      BY <1>2 DEF Tiles
    <2>2. ~h[z].free
      BY <1>2 DEF Merged
    <2> QED  BY <2>1, <2>2, <1>1
  <1>9. NIL \notin DOMAIN h /\ NIL # y
    BY <1>0, <1>1 DEF NIL
  <1>5. g \in [DOMAIN h \cup {y} -> Header]
    <2> DEFINE b == [pre |-> x, next |-> z, free |-> TRUE, size |-> h[x].size - w]
               c == [h[x] EXCEPT !.free = FALSE, !.next = y, !.size = w]
               f == [With(h, y, b) EXCEPT ![x] = c]
    <2>1. b \in Header /\ h[x] \in Header
      BY <1>0, <1>1 DEF Header
    <2>2. c \in Header
      <3>1. w \in Int /\ y \in Int
        BY <1>1
      <3> HIDE DEF w, y
      <3> QED  BY <2>1, <3>1, HeaderCut, Zenon
    <2>3. With(h, y, b) \in [DOMAIN h \cup {y} -> Header] /\ With(h, y, b)[x] = h[x]
      BY <1>0, <1>1, <2>1 DEF With
    <2>4. f \in [DOMAIN h \cup {y} -> Header]
      BY <2>2, <2>3
    <2>5. g = IF z = NIL THEN f ELSE [f EXCEPT ![z].pre = y]
      <3>1. f = [With(h, y, b) EXCEPT ![x] = [@ EXCEPT !.free = FALSE, !.next = y, !.size = w]]
        BY <2>3
      <3>2. g = LET cut == [With(h, y, b) EXCEPT ![x] = [@ EXCEPT !.free = FALSE, !.next = y, !.size = w]]
                IN IF z = NIL THEN cut ELSE [cut EXCEPT ![z].pre = y]
        BY Zenon DEF g, Split
      <3> HIDE DEF f
      <3> QED  BY <3>1, <3>2
    <2>6. z # NIL => [f EXCEPT ![z].pre = y] \in [DOMAIN h \cup {y} -> Header]
      <3> HIDE DEF f
      <3> SUFFICES ASSUME z # NIL PROVE [f EXCEPT ![z].pre = y] \in [DOMAIN h \cup {y} -> Header]
        OBVIOUS
      <3>1. z \in DOMAIN h \cup {y} /\ f[z] \in Header
        BY <1>4, <2>4
      <3>2. [f[z] EXCEPT !.pre = y] \in Header
        BY <3>1, <1>1 DEF Header
      <3> QED  BY <3>1, <3>2, <2>4
    <2> QED  BY <2>4, <2>5, <2>6
  <1>6. /\ g[x].pre = h[x].pre /\ g[x].next = y /\ ~g[x].free /\ g[x].size = w
        /\ g[y].pre = x /\ g[y].next = z /\ g[y].free /\ g[y].size = h[x].size - w
    BY <1>0, <1>1, <1>3, <1>4 DEF g, Split, With, Header
  <1>7. z # NIL => /\ g[z].pre = y /\ g[z].next = h[z].next /\ g[z].size = h[z].size /\ ~g[z].free
    BY <1>0, <1>1, <1>3, <1>4 DEF g, Split, With, Header
  <1>8. \A u \in DOMAIN h : u # x /\ u # z => g[u] = h[u] /\ u # y
    BY <1>0, <1>1, <1>3, <1>4 DEF g, Split, With, Header
  <1>10. Headers(g, n)
    BY <1>0, <1>1, <1>5 DEF Headers
  <1>11. Tiles(g, n)
    <2> SUFFICES ASSUME NEW u \in DOMAIN h \cup {y}
                 PROVE  /\ g[u].size > 0 /\ u + g[u].size <= n
                        /\ g[u].next = NIL => u + g[u].size = n
                        /\ g[u].next # NIL => /\ g[u].next = u + g[u].size /\ g[u].next \in DOMAIN h \cup {y}
                                             /\ g[g[u].next].pre = u
                        /\ g[u].pre # NIL => g[u].pre \in DOMAIN h \cup {y} /\ g[g[u].pre].next = u
      BY <1>5 DEF Tiles
    <2>0. y # NIL /\ x # NIL
      BY <1>1 DEF NIL
    <2>1. CASE u = y
      <3>1. x + h[x].size <= n /\ (z = NIL => x + h[x].size = n)
        BY <1>2 DEF Tiles
      <3>2. g[u].next = z /\ g[u].size = h[x].size - w /\ g[u].pre = x
        BY <2>1, <1>6
      <3> QED  BY <2>1, <3>1, <3>2, <1>1, <1>4, <1>6, <1>7
    <2>2. CASE u = x
      <3>1. h[x].pre # NIL => h[x].pre \in DOMAIN h /\ h[h[x].pre].next = x /\ h[h[x].pre].size > 0
                             /\ h[h[x].pre].next = h[x].pre + h[h[x].pre].size
        BY <1>2, <2>0 DEF Tiles
      <3>2. h[x].pre # NIL => h[x].pre # x /\ h[x].pre # z
        <4> SUFFICES ASSUME h[x].pre # NIL PROVE h[x].pre # x /\ h[x].pre # z
          OBVIOUS
        <4>1. h[x].pre \in Nat /\ h[h[x].pre].size \in Int
          BY <3>1, <1>0 DEF Header
        <4>2. h[x].pre < x
          BY <3>1, <4>1
        <4> QED  BY <4>1, <4>2, <1>1, <1>4, <2>0
      <3>3. h[x].pre # NIL => g[h[x].pre].next = x
        BY <3>1, <3>2, <1>8
      <3>4. x + h[x].size <= n
        BY <1>2 DEF Tiles
      <3>5. x + w <= n
        BY <3>4, <1>0, <1>1
      <3> QED  BY <2>2, <3>1, <3>3, <3>5, <1>1, <1>6, <2>0
    <2>3. CASE u \in DOMAIN h /\ u # x
      <3>1. /\ u \in Nat /\ h[u].size \in Int /\ h[u].size > 0 /\ u + h[u].size <= n
            /\ h[u].next = NIL => u + h[u].size = n
            /\ h[u].next # NIL => h[u].next = u + h[u].size /\ h[u].next \in DOMAIN h /\ h[h[u].next].pre = u
            /\ h[u].pre # NIL => h[u].pre \in DOMAIN h /\ h[h[u].pre].next = u
        BY <2>3, <1>0, <1>2 DEF Tiles, Header
      <3>2. g[u].next = h[u].next /\ g[u].size = h[u].size
        BY <2>3, <1>7, <1>8, <1>9
      <3>3. h[u].next # NIL => h[u].next # z
        BY <3>1, <1>4, <2>3
      <3>4. h[u].next # NIL => g[h[u].next].pre = u
        <4>1. CASE h[u].next = x
          BY <4>1, <3>1, <1>6
        <4>2. CASE h[u].next # x
          BY <4>2, <3>1, <3>3, <1>8
        <4> QED  BY <4>1, <4>2
      <3>5. g[u].pre # NIL => g[u].pre \in DOMAIN h \cup {y} /\ g[g[u].pre].next = u
        <4>1. CASE u = z
          BY <4>1, <1>6, <1>7, <1>9, <2>3
        <4>2. CASE u # z
          <5>1. g[u].pre = h[u].pre
            BY <4>2, <2>3, <1>8
          <5>2. h[u].pre # NIL => h[u].pre # x
            BY <3>1, <4>2
          <5>3. h[u].pre # NIL => g[h[u].pre].next = u
            <6>1. CASE h[u].pre = z
              BY <6>1, <1>7, <3>1
            <6>2. CASE h[u].pre # z
              BY <6>2, <5>2, <1>8, <3>1
            <6> QED  BY <6>1, <6>2
          <5> QED  BY <5>1, <5>3, <3>1
        <4> QED  BY <4>1, <4>2
      <3> QED  BY <3>1, <3>2, <3>4, <3>5
    <2> QED  BY <2>1, <2>2, <2>3
  <1>12. Apart(g)
    <2> SUFFICES ASSUME NEW u \in DOMAIN h \cup {y}, NEW v \in DOMAIN h \cup {y}, u < v
                 PROVE  u + g[u].size <= v
      BY <1>5 DEF Apart
    <2>1. \A a, b \in DOMAIN h : a < b => a + h[a].size <= b
      BY <1>2 DEF Apart
    <2>2. \A a \in DOMAIN h : a \in Nat /\ h[a].size \in Int
      BY <1>0 DEF Header
    <2>3. \A a \in DOMAIN h : a # x => g[a].size = h[a].size
      BY <1>7, <1>8, <1>9, <1>4
    <2>4. CASE u = x
      <3>1. CASE v = y
        BY <2>4, <3>1, <1>6, <1>1
      <3>2. CASE v \in DOMAIN h
        <4>1. x + h[x].size <= v
          BY <2>1, <2>4, <3>2
        <4> QED  BY <4>1, <2>4, <1>6, <1>1, <2>2, <3>2
      <3> QED  BY <3>1, <3>2
    <2>5. CASE u = y
      <3>1. v \in DOMAIN h
        BY <2>5, <1>1
      <3>2. x < v
        BY <2>5, <3>1, <1>1, <2>2
      <3>3. x + h[x].size <= v
        BY <3>1, <3>2, <2>1
      <3> QED  BY <2>5, <3>3, <1>6, <1>1
    <2>6. CASE u \in DOMAIN h /\ u # x
      <3>1. CASE v = y
        <4>1. CASE u < x
          BY <4>1, <3>1, <2>1, <2>2, <2>3, <2>6, <1>1
        <4>2. CASE x < u
          <5>1. x + h[x].size <= u
            BY <4>2, <2>1, <2>6
          <5> QED  BY <5>1, <3>1, <1>1, <2>2, <2>6
        <4> QED  BY <4>1, <4>2, <2>2, <2>6
      <3>2. CASE v \in DOMAIN h
        BY <3>2, <2>6, <2>1, <2>3
      <3> QED  BY <3>1, <3>2
    <2> QED  BY <2>4, <2>5, <2>6
  <1>13. Merged(g)
    <2> SUFFICES ASSUME NEW u \in DOMAIN h \cup {y}, g[u].free, g[u].next # NIL PROVE ~g[g[u].next].free
      BY <1>5 DEF Merged
    <2>1. CASE u = y
      BY <2>1, <1>6, <1>7
    <2>2. CASE u = x
      BY <2>2, <1>6
    <2>3. CASE u \in DOMAIN h /\ u # x
      <3>1. u # z
        BY <1>4, <1>7, <2>3, <1>1, <1>0 DEF NIL
      <3>2. g[u] = h[u]
        BY <3>1, <2>3, <1>8
      <3>3. h[u].next # z /\ h[u].next \in DOMAIN h /\ ~h[h[u].next].free
        <4>1. h[u].next # NIL
          BY <3>2
        <4>2. h[u].next \in DOMAIN h /\ h[h[u].next].pre = u
          BY <2>3, <4>1, <1>2 DEF Tiles
        <4>3. ~h[h[u].next].free
          BY <2>3, <4>1, <3>2, <1>2 DEF Merged
        <4> QED  BY <4>1, <4>2, <4>3, <1>4, <2>3
      <3>4. h[u].next # x
        BY <3>3
      <3>5. g[h[u].next] = h[h[u].next]
        BY <3>3, <3>4, <1>8
      <3> QED  BY <3>2, <3>3, <3>5
    <2> QED  BY <2>1, <2>2, <2>3
  <1>14. Holds(g, I \cup {i})
    <2>1. \A j \in I : j.at # x /\ j.at \in DOMAIN h /\ j.at # y /\ Adjusted(j.len) <= h[j.at].size
      BY <1>2, <1>3 DEF Holds
    <2>2. \A u \in DOMAIN h : u # x => g[u].size = h[u].size /\ (g[u].free <=> h[u].free)
      BY <1>7, <1>8, <1>9, <1>4
    <2>3. \A u \in DOMAIN g : ~g[u].free <=> \E j \in I \cup {i} : j.at = u
      <3> SUFFICES ASSUME NEW u \in DOMAIN h \cup {y}
                   PROVE  ~g[u].free <=> \E j \in I \cup {i} : j.at = u
        BY <1>5
      <3>1. CASE u = y
        BY <3>1, <2>1, <1>6, <1>1
      <3>2. CASE u = x
        BY <3>2, <1>6
      <3>3. CASE u \in DOMAIN h /\ u # x
        <4>1. ~h[u].free <=> \E j \in I : j.at = u
          BY <3>3, <1>2 DEF Holds
        <4> QED  BY <3>3, <4>1, <2>2
      <3> QED  BY <3>1, <3>2, <3>3
    <2>4. \A j \in I \cup {i} : j.at \in DOMAIN g /\ Adjusted(j.len) <= g[j.at].size
      <3>1. DOMAIN g = DOMAIN h \cup {y}
        BY <1>5
      <3>2. Adjusted(i.len) <= g[x].size
        BY <1>6, <1>1
      <3> QED  BY <3>1, <3>2, <2>1, <2>2
    <2>5. \A j, k \in I \cup {i} : j.at = k.at => j = k
      BY <2>1, <1>2 DEF Holds
    <2> QED  BY <2>3, <2>4, <2>5 DEF Holds
  <1> QED  BY <1>10, <1>11, <1>12, <1>13, <1>14 DEF AreaOK, g

\* Block v swallows the dead blocks behind it up to block w, or up to the end; what becomes
\* free is the block of item.
CanJoin(h, n, item, v, dead, len, w) ==
  /\ v \in DOMAIN h /\ dead \in SUBSET DOMAIN h /\ v \notin dead /\ len \in Int /\ w \in Int
  /\ item.at \in dead \cup {v} /\ \A u \in dead \cup {v} : u = item.at \/ h[u].free
  /\ w # NIL => /\ w \in DOMAIN h \ dead /\ w # v /\ ~h[w].free
                /\ h[w].pre \in dead \cup {v} /\ w = v + len
  /\ w = NIL => v + len = n
  /\ h[v].pre # NIL => ~h[h[v].pre].free /\ h[v].pre \notin dead
  /\ \A u \in dead : h[u].pre \in dead \cup {v} /\ v < u /\ u < v + len
  /\ \A u \in dead \cup {v} : h[u].next \in dead \cup {w}
  /\ \A u \in DOMAIN h \ dead : v < u => v + len <= u
  /\ h[v].size <= len /\ v + len <= n

\* g is what becomes of the headers then.
HasJoined(h, g, v, dead, len, w) ==
  /\ g \in [DOMAIN h \ dead -> Header]
  /\ g[v].pre = h[v].pre /\ g[v].next = w /\ g[v].free /\ g[v].size = len
  /\ w # NIL => g[w].pre = v /\ g[w].next = h[w].next /\ g[w].size = h[w].size /\ ~g[w].free
  /\ \A u \in DOMAIN h \ dead : u # v /\ u # w => g[u] = h[u]

\* Blocks that are joined leave the area in order.
LEMMA JoinOK ==
  ASSUME NEW h, NEW n, NEW I \in SUBSET Item, AreaOK(h, n, I), NEW item \in I, NEW v, NEW dead,
         NEW len, NEW w, NEW g,
         CanJoin(h, n, item, v, dead, len, w), HasJoined(h, g, v, dead, len, w)
  PROVE  AreaOK(g, n, I \ {item})
  <1> USE DEF CanJoin, HasJoined
  <1>0. n \in Nat /\ DOMAIN h \subseteq Nat /\ h \in [DOMAIN h -> Header] /\ (n # 0 => 0 \in DOMAIN h)
    BY DEF AreaOK, Headers
  <1>1. Tiles(h, n) /\ Apart(h) /\ Merged(h) /\ Holds(h, I)
    BY DEF AreaOK
  <1>2. \A u \in DOMAIN h : u \in Nat /\ u # NIL /\ h[u].size \in Int /\ h[u].size > 0
    BY <1>0, <1>1 DEF Tiles, Header, NIL
  <1>3. DOMAIN g = DOMAIN h \ dead
    OBVIOUS
  <1>4. \A u \in DOMAIN h \ dead : u # v => g[u].next = h[u].next /\ g[u].size = h[u].size
                                            /\ (g[u].free <=> h[u].free)
    BY <1>2
  <1>5. Headers(g, n)
    <2>1. 0 \notin dead
      BY <1>2
    <2> QED  BY <1>0, <1>3, <2>1 DEF Headers
  <1>6. \A u \in DOMAIN h \ dead : u # v /\ h[u].next # NIL =>
          h[u].next \in DOMAIN h \ dead /\ h[u].next # w /\ h[h[u].next].pre = u
    BY <1>1, <1>2 DEF Tiles
  <1>7. Tiles(g, n)
    <2> SUFFICES ASSUME NEW u \in DOMAIN h \ dead
                 PROVE  /\ g[u].size > 0 /\ u + g[u].size <= n
                        /\ g[u].next = NIL => u + g[u].size = n
                        /\ g[u].next # NIL => /\ g[u].next = u + g[u].size /\ g[u].next \in DOMAIN h \ dead
                                             /\ g[g[u].next].pre = u
                        /\ g[u].pre # NIL => g[u].pre \in DOMAIN h \ dead /\ g[g[u].pre].next = u
      BY <1>3 DEF Tiles
    <2>1. /\ h[u].size > 0 /\ u + h[u].size <= n
          /\ h[u].next = NIL => u + h[u].size = n
          /\ h[u].next # NIL => h[u].next = u + h[u].size /\ h[u].next \in DOMAIN h /\ h[h[u].next].pre = u
          /\ h[u].pre # NIL => h[u].pre \in DOMAIN h /\ h[h[u].pre].next = u
      BY <1>1 DEF Tiles
    <2>2. CASE u = v
      <3>1. g[u].size > 0
        BY <2>2, <2>1, <1>2
      <3>2. h[v].pre # NIL => h[v].pre \in DOMAIN h \ dead /\ g[h[v].pre].next = v
        <4> SUFFICES ASSUME h[v].pre # NIL PROVE h[v].pre \in DOMAIN h \ dead /\ g[h[v].pre].next = v
          OBVIOUS
        <4>1. h[v].pre \in DOMAIN h \ dead /\ h[h[v].pre].next = v
          BY <2>1, <2>2
        <4>2. h[v].pre # v
          <5>1. h[h[v].pre].next = h[v].pre + h[h[v].pre].size
            BY <4>1, <1>1, <1>2 DEF Tiles
          <5> QED  BY <5>1, <4>1, <1>2
        <4> QED  BY <4>1, <4>2, <1>4
      <3> QED  BY <2>2, <3>1, <3>2
    <2>3. CASE u # v
      <3>1. g[u].next = h[u].next /\ g[u].size = h[u].size
        BY <2>3, <1>4
      <3>2. h[u].next # NIL => h[u].next \in DOMAIN h \ dead /\ g[h[u].next].pre = u
        <4>1. CASE h[u].next = v
          BY <4>1, <2>1
        <4>2. CASE h[u].next # v
          BY <4>2, <2>3, <1>6
        <4> QED  BY <4>1, <4>2
      <3>3. CASE u = w
        BY <3>3, <3>1, <3>2, <2>1, <1>2
      <3>4. CASE u # w
        <4>1. g[u] = h[u]
          BY <2>3, <3>4
        <4>2. h[u].pre # NIL => h[u].pre \in DOMAIN h \ dead /\ h[u].pre # v
          BY <2>1, <3>4, <2>3
        <4>3. h[u].pre # NIL => g[h[u].pre].next = u
          BY <4>2, <1>4, <2>1
        <4> QED  BY <4>1, <4>2, <4>3, <3>2, <2>1
      <3> QED  BY <3>3, <3>4
    <2> QED  BY <2>2, <2>3
  <1>8. Apart(g)
    <2> SUFFICES ASSUME NEW a \in DOMAIN h \ dead, NEW b \in DOMAIN h \ dead, a < b PROVE a + g[a].size <= b
      BY <1>3 DEF Apart
    <2>1. a + h[a].size <= b
      BY <1>1 DEF Apart
    <2> QED  BY <2>1, <1>4
  <1>9. Merged(g)
    <2> SUFFICES ASSUME NEW u \in DOMAIN h \ dead, g[u].free, g[u].next # NIL PROVE ~g[g[u].next].free
      BY <1>3 DEF Merged
    <2>1. CASE u = v
      BY <2>1
    <2>2. CASE u # v
      <3>1. h[u].free /\ h[u].next # NIL /\ g[u].next = h[u].next
        BY <2>2, <1>4
      <3>2. ~h[h[u].next].free
        BY <3>1, <1>1 DEF Merged
      <3>3. h[u].next # v
        <4> SUFFICES ASSUME h[u].next = v PROVE FALSE
          OBVIOUS
        <4>1. h[v].pre = u
          BY <3>1, <1>6, <2>2
        <4> QED  BY <4>1, <3>1, <1>2
      <3>4. ~g[h[u].next].free
        BY <3>1, <3>2, <3>3, <1>4, <1>6, <2>2
      <3> QED  BY <3>1, <3>4
    <2> QED  BY <2>1, <2>2
  <1>10. Holds(g, I \ {item})
    <2>1. /\ \A u \in DOMAIN h : ~h[u].free <=> \E i \in I : i.at = u
          /\ \A i \in I : i.at \in DOMAIN h /\ Adjusted(i.len) <= h[i.at].size
          /\ \A i, j \in I : i.at = j.at => i = j
      BY <1>1 DEF Holds
    <2>2. \A j \in I \ {item} : j.at # item.at /\ ~h[j.at].free
      BY <2>1
    <2>3. \A j \in I \ {item} : j.at \in DOMAIN h \ dead /\ j.at # v
      BY <2>1, <2>2
    <2>4. \A u \in DOMAIN g : ~g[u].free <=> \E j \in I \ {item} : j.at = u
      <3> SUFFICES ASSUME NEW u \in DOMAIN h \ dead
                   PROVE  ~g[u].free <=> \E j \in I \ {item} : j.at = u
        BY <1>3
      <3>1. CASE u = v
        BY <3>1, <2>3
      <3>2. CASE u # v
        <4>1. (~g[u].free) <=> \E j \in I : j.at = u
          BY <3>2, <1>4, <2>1
        <4>2. item.at # u
          BY <3>2
        <4> QED  BY <4>1, <4>2
      <3> QED  BY <3>1, <3>2
    <2>5. \A j \in I \ {item} : j.at \in DOMAIN g /\ Adjusted(j.len) <= g[j.at].size
      BY <2>1, <2>3, <1>3, <1>4
    <2> QED  BY <2>1, <2>4, <2>5 DEF Holds
  <1> QED  BY <1>5, <1>7, <1>8, <1>9, <1>10 DEF AreaOK

\* The assignments of mb_free when blocks are merged.
Joined(h, v, dead, len, w) ==
  LET g == [Without(h, dead) EXCEPT ![v] = [@ EXCEPT !.free = TRUE, !.size = len, !.next = w]]
  IN IF w = NIL THEN g ELSE [g EXCEPT ![w].pre = v]

\* What these assignments make of each header.
LEMMA JoinedIs ==
  ASSUME NEW h, DOMAIN h \subseteq Nat, h \in [DOMAIN h -> Header], NEW v \in DOMAIN h,
         NEW dead \in SUBSET DOMAIN h, v \notin dead, NEW len \in Int, NEW w \in Int,
         w # NIL => w \in DOMAIN h \ dead /\ w # v /\ ~h[w].free,
         NEW g, g = Joined(h, v, dead, len, w)
  PROVE  HasJoined(h, g, v, dead, len, w)
  <1> USE DEF HasJoined
  <1> DEFINE k == Without(h, dead)
             c == [h[v] EXCEPT !.free = TRUE, !.size = len, !.next = w]
             f == [k EXCEPT ![v] = c]
  <1>1. k \in [DOMAIN h \ dead -> Header] /\ \A u \in DOMAIN h \ dead : k[u] = h[u]
    BY DEF Without
  <1>2. c \in Header /\ c.pre = h[v].pre /\ c.next = w /\ c.free /\ c.size = len
    <2>1. h[v] \in Header
      OBVIOUS
    <2>2. PICK d : d = c
      OBVIOUS
    <2>3. d \in Header /\ d.pre = h[v].pre /\ d.next = w /\ d.free /\ d.size = len
      <3>1. PICK r \in Header : r = h[v]
        BY <2>1
      <3>2. d = [r EXCEPT !.free = TRUE, !.size = len, !.next = w]
        BY <2>2, <3>1
      <3>3. d \in Header /\ d.pre = r.pre /\ d.next = w /\ d.free /\ d.size = len
        BY <3>2 DEF Header
      <3> QED  BY <3>1, <3>3
    <2> HIDE DEF c
    <2> QED  BY <2>2, <2>3
  <1>3. f = [k EXCEPT ![v] = [@ EXCEPT !.free = TRUE, !.size = len, !.next = w]]
    BY <1>1
  <1>4. g = IF w = NIL THEN f ELSE [f EXCEPT ![w].pre = v]
    <2>1. g = LET e == [k EXCEPT ![v] = [@ EXCEPT !.free = TRUE, !.size = len, !.next = w]]
              IN IF w = NIL THEN e ELSE [e EXCEPT ![w].pre = v]
      BY Zenon DEF Joined
    <2> HIDE DEF f
    <2> QED  BY <2>1, <1>3
  <1> HIDE DEF c, k
  <1>5. /\ f \in [DOMAIN h \ dead -> Header] /\ f[v] = c
        /\ \A u \in DOMAIN h \ dead : u # v => f[u] = h[u]
    BY <1>1, <1>2
  <1> HIDE DEF f
  <1>6. CASE w = NIL
    <2>1. g = f
      BY <1>4, <1>6
    <2> QED  BY <2>1, <1>2, <1>5, <1>6
  <1>7. CASE w # NIL
    <2>1. g = [f EXCEPT ![w] = [f[w] EXCEPT !.pre = v]]
      BY <1>4, <1>7
    <2>2. f[w] = h[w] /\ h[w] \in Header /\ v \in Int /\ w \in DOMAIN h \ dead /\ w # v
      BY <1>5, <1>7
    <2>3. [f[w] EXCEPT !.pre = v] \in Header
      BY <2>2, HeaderBack
    <2>4. g \in [DOMAIN h \ dead -> Header] /\ g[w] = [h[w] EXCEPT !.pre = v] /\ g[v] = c
      BY <2>1, <2>2, <2>3, <1>5
    <2>5. \A u \in DOMAIN h \ dead : u # v /\ u # w => g[u] = h[u]
      BY <2>1, <1>5
    <2>6. g[w].pre = v /\ g[w].next = h[w].next /\ g[w].size = h[w].size /\ ~g[w].free
      BY <2>4, <2>2, <1>7 DEF Header
    <2> QED  BY <2>4, <2>5, <2>6, <1>2
  <1> QED  BY <1>6, <1>7

\* A block that becomes free is merged with its neighbours, whichever of them are free.
LEMMA MergeOK ==
  ASSUME NEW h, NEW n, NEW I \in SUBSET Item, AreaOK(h, n, I), NEW item \in I
  PROVE  AreaOK(Merge(h, item.at), n, I \ {item})
  <1>0. n \in Nat /\ DOMAIN h \subseteq Nat /\ h \in [DOMAIN h -> Header]
    BY DEF AreaOK, Headers
  <1>1. Tiles(h, n) /\ Apart(h) /\ Merged(h) /\ Holds(h, I)
    BY DEF AreaOK
  <1>2. \A u \in DOMAIN h : /\ u \in Nat /\ u # NIL /\ h[u].size \in Int /\ h[u].size > 0
                            /\ h[u].pre \in Int /\ h[u].next \in Int /\ u + h[u].size <= n
    BY <1>0, <1>1 DEF Tiles, Header, NIL
  <1>3. \A u \in DOMAIN h :
          /\ h[u].next = NIL => u + h[u].size = n
          /\ h[u].next # NIL => h[u].next = u + h[u].size /\ h[u].next \in DOMAIN h /\ h[h[u].next].pre = u
          /\ h[u].pre # NIL => h[u].pre \in DOMAIN h /\ h[h[u].pre].next = u
    BY <1>1 DEF Tiles
  <1>4. PICK x : x = item.at
    OBVIOUS
  <1>5. x \in DOMAIN h /\ ~h[x].free
    BY <1>1, <1>4 DEF Holds
  <1>6. \A a, b \in DOMAIN h : a < b => a + h[a].size <= b
    BY <1>1 DEF Apart
  <1>7. \A u \in DOMAIN h : h[u].free /\ h[u].next # NIL => ~h[h[u].next].free
    BY <1>1 DEF Merged
  <1>8. PICK y, z : y = h[x].pre /\ z = h[x].next
    OBVIOUS
  <1>9. y # NIL => y \in DOMAIN h /\ h[y].next = x /\ x = y + h[y].size /\ y < x
    BY <1>2, <1>3, <1>5, <1>8
  <1>10. z # NIL => z \in DOMAIN h /\ h[z].pre = x /\ z = x + h[x].size /\ x < z
    BY <1>2, <1>3, <1>5, <1>8
  <1> DEFINE before == y # NIL /\ h[y].free
             after == z # NIL /\ h[z].free
  <1>11. Merge(h, x) =
           CASE after /\ before -> Joined(h, y, {x, z}, h[y].size + h[x].size + h[z].size, h[z].next)
             [] after /\ ~before -> Joined(h, x, {z}, h[x].size + h[z].size, h[z].next)
             [] ~after /\ before -> Joined(h, y, {x}, h[y].size + h[x].size, z)
             [] ~after /\ ~before -> [h EXCEPT ![x].free = TRUE]
    BY <1>8, Zenon DEF Merge, Joined
  <1>12. PICK m : m = Merge(h, x)
    OBVIOUS
  <1>13. h[x].pre # NIL /\ ~before => ~h[h[x].pre].free
    BY <1>8
  <1>14. before => (h[y].pre # NIL => ~h[h[y].pre].free /\ h[y].pre < y)
    BY <1>2, <1>3, <1>7, <1>9
  <1>15. after => (h[z].next # NIL => /\ ~h[h[z].next].free /\ h[z].next \in DOMAIN h
                                      /\ h[h[z].next].pre = z /\ h[z].next = z + h[z].size /\ z < h[z].next)
    BY <1>2, <1>3, <1>7, <1>10
  <1>16. CASE after /\ before
    <2>1. PICK len, w : len = h[y].size + h[x].size + h[z].size /\ w = h[z].next
      OBVIOUS
    <2>2. m = Joined(h, y, {x, z}, len, w)
      BY <1>11, <1>12, <1>16, <2>1
    <2>3. len \in Int /\ w \in Int /\ {x, z} \in SUBSET DOMAIN h /\ y \in DOMAIN h /\ y \notin {x, z}
      BY <1>2, <1>5, <1>9, <1>10, <1>16, <2>1
    <2>4. w # NIL => w \in DOMAIN h \ {x, z} /\ w # y /\ ~h[w].free /\ h[w].pre = z /\ w = y + len
      BY <1>2, <1>5, <1>9, <1>10, <1>15, <1>16, <2>1
    <2>5. y + len = z + h[z].size /\ z + h[z].size <= n /\ (w = NIL => y + len = n)
      BY <1>2, <1>3, <1>5, <1>9, <1>10, <1>16, <2>1
    <2>6. h[y].pre # NIL => ~h[h[y].pre].free /\ h[y].pre \notin {x, z}
      BY <1>2, <1>5, <1>9, <1>10, <1>14, <1>16
    <2>7. \A u \in {x, z} : h[u].pre \in {x, z} \cup {y} /\ y < u /\ u < y + len
      BY <1>2, <1>5, <1>8, <1>9, <1>10, <1>16, <2>5
    <2>8. \A u \in {x, z} \cup {y} : h[u].next \in {x, z} \cup {w}
      BY <1>8, <1>9, <1>16, <2>1
    <2>9. \A u \in DOMAIN h \ {x, z} : y < u => y + len <= u
      <3> SUFFICES ASSUME NEW u \in DOMAIN h, u # x, u # z, y < u PROVE y + len <= u
        OBVIOUS
      <3>1. x <= u
        BY <1>6, <1>9, <1>16
      <3>2. x < u
        BY <3>1, <1>2, <1>5
      <3>3. z <= u
        BY <3>2, <1>5, <1>6, <1>10, <1>16
      <3>4. z < u
        BY <3>3, <1>2, <1>10, <1>16
      <3>5. z + h[z].size <= u
        BY <3>4, <1>6, <1>10, <1>16
      <3> QED  BY <3>5, <2>5
    <2>10. h[y].size <= len /\ y + len <= n
      BY <1>2, <1>5, <1>9, <1>10, <1>16, <2>1, <2>5
    <2>11. \A u \in {x, z} \cup {y} : u = item.at \/ h[u].free
      BY <1>4, <1>16
    <2>12. HasJoined(h, m, y, {x, z}, len, w)
      BY <1>0, <2>2, <2>3, <2>4, JoinedIs
    <2>13. w # NIL => h[w].pre \in {x, z} \cup {y}
      BY <2>4
    <2>14. item.at \in {x, z} \cup {y}
      BY <1>4
    <2> HIDE DEF before, after
    <2>15. CanJoin(h, n, item, y, {x, z}, len, w)
      BY <2>3, <2>4, <2>5, <2>6, <2>7, <2>8, <2>9, <2>10, <2>11, <2>13, <2>14 DEF CanJoin
    <2>16. AreaOK(m, n, I \ {item})
      BY <2>12, <2>15, JoinOK
    <2> QED  BY <2>16, <1>12, <1>4
  <1>17. CASE after /\ ~before
    <2>1. PICK len, w : len = h[x].size + h[z].size /\ w = h[z].next
      OBVIOUS
    <2>2. m = Joined(h, x, {z}, len, w)
      BY <1>11, <1>12, <1>17, <2>1
    <2>3. len \in Int /\ w \in Int /\ {z} \in SUBSET DOMAIN h /\ x \notin {z}
      BY <1>2, <1>5, <1>10, <1>17, <2>1
    <2>4. w # NIL => w \in DOMAIN h \ {z} /\ w # x /\ ~h[w].free /\ h[w].pre = z /\ w = x + len
      BY <1>2, <1>5, <1>10, <1>15, <1>17, <2>1
    <2>5. x + len = z + h[z].size /\ z + h[z].size <= n /\ (w = NIL => x + len = n)
      BY <1>2, <1>3, <1>5, <1>10, <1>17, <2>1
    <2>6. h[x].pre # NIL => ~h[h[x].pre].free /\ h[x].pre \notin {z}
      BY <1>2, <1>5, <1>8, <1>9, <1>10, <1>13, <1>17
    <2>7. \A u \in {z} : h[u].pre \in {z} \cup {x} /\ x < u /\ u < x + len
      BY <1>2, <1>5, <1>10, <1>17, <2>5
    <2>8. \A u \in {z} \cup {x} : h[u].next \in {z} \cup {w}
      BY <1>8, <2>1
    <2>9. \A u \in DOMAIN h \ {z} : x < u => x + len <= u
      <3> SUFFICES ASSUME NEW u \in DOMAIN h, u # z, x < u PROVE x + len <= u
        OBVIOUS
      <3>3. z <= u
        BY <1>5, <1>6, <1>10, <1>17
      <3>4. z < u
        BY <3>3, <1>2, <1>10, <1>17
      <3>5. z + h[z].size <= u
        BY <3>4, <1>6, <1>10, <1>17
      <3> QED  BY <3>5, <2>5
    <2>10. h[x].size <= len /\ x + len <= n
      BY <1>2, <1>5, <1>10, <1>17, <2>1, <2>5
    <2>11. \A u \in {z} \cup {x} : u = item.at \/ h[u].free
      BY <1>4, <1>17
    <2>12. HasJoined(h, m, x, {z}, len, w)
      BY <1>0, <1>5, <2>2, <2>3, <2>4, JoinedIs
    <2>13. w # NIL => h[w].pre \in {z} \cup {x}
      BY <2>4
    <2>14. item.at \in {z} \cup {x}
      BY <1>4
    <2> HIDE DEF before, after
    <2>15. CanJoin(h, n, item, x, {z}, len, w)
      BY <1>5, <2>3, <2>4, <2>5, <2>6, <2>7, <2>8, <2>9, <2>10, <2>11, <2>13, <2>14 DEF CanJoin
    <2>16. AreaOK(m, n, I \ {item})
      BY <2>12, <2>15, JoinOK
    <2> QED  BY <2>16, <1>12, <1>4
  <1>18. CASE ~after /\ before
    <2>1. PICK len : len = h[y].size + h[x].size
      OBVIOUS
    <2>2. m = Joined(h, y, {x}, len, z)
      BY <1>11, <1>12, <1>18, <2>1
    <2>3. len \in Int /\ z \in Int /\ {x} \in SUBSET DOMAIN h /\ y \in DOMAIN h /\ y \notin {x}
      BY <1>2, <1>5, <1>8, <1>9, <1>18, <2>1
    <2>4. z # NIL => z \in DOMAIN h \ {x} /\ z # y /\ ~h[z].free /\ h[z].pre = x /\ z = y + len
      BY <1>2, <1>5, <1>9, <1>10, <1>18, <2>1
    <2>5. y + len = x + h[x].size /\ x + h[x].size <= n /\ (z = NIL => y + len = n)
      BY <1>2, <1>3, <1>5, <1>8, <1>9, <1>18, <2>1
    <2>6. h[y].pre # NIL => ~h[h[y].pre].free /\ h[y].pre \notin {x}
      BY <1>2, <1>5, <1>9, <1>14, <1>18
    <2>7. \A u \in {x} : h[u].pre \in {x} \cup {y} /\ y < u /\ u < y + len
      BY <1>2, <1>5, <1>8, <1>9, <1>18, <2>5
    <2>8. \A u \in {x} \cup {y} : h[u].next \in {x} \cup {z}
      BY <1>8, <1>9, <1>18
    <2>9. \A u \in DOMAIN h \ {x} : y < u => y + len <= u
      <3> SUFFICES ASSUME NEW u \in DOMAIN h, u # x, y < u PROVE y + len <= u
        OBVIOUS
      <3>3. x <= u
        BY <1>6, <1>9, <1>18
      <3>4. x < u
        BY <3>3, <1>2, <1>5
      <3>5. x + h[x].size <= u
        BY <3>4, <1>5, <1>6
      <3> QED  BY <3>5, <2>5
    <2>10. h[y].size <= len /\ y + len <= n
      BY <1>2, <1>5, <1>9, <1>18, <2>1, <2>5
    <2>11. \A u \in {x} \cup {y} : u = item.at \/ h[u].free
      BY <1>4, <1>18
    <2>12. HasJoined(h, m, y, {x}, len, z)
      BY <1>0, <2>2, <2>3, <2>4, JoinedIs
    <2>13. z # NIL => h[z].pre \in {x} \cup {y}
      BY <2>4
    <2>14. item.at \in {x} \cup {y}
      BY <1>4
    <2> HIDE DEF before, after
    <2>15. CanJoin(h, n, item, y, {x}, len, z)
      BY <2>3, <2>4, <2>5, <2>6, <2>7, <2>8, <2>9, <2>10, <2>11, <2>13, <2>14 DEF CanJoin
    <2>16. AreaOK(m, n, I \ {item})
      BY <2>12, <2>15, JoinOK
    <2> QED  BY <2>16, <1>12, <1>4
  <1>19. CASE ~after /\ ~before
    <2>1. m = [h EXCEPT ![x].free = TRUE]
      BY <1>11, <1>12, <1>19
    <2>2. PICK len : len = h[x].size
      OBVIOUS
    <2>3. /\ m \in [DOMAIN h \ {} -> Header]
          /\ m[x].pre = h[x].pre /\ m[x].next = z /\ m[x].free /\ m[x].size = len
          /\ \A u \in DOMAIN h \ {} : u # x => m[u] = h[u]
      BY <1>0, <1>5, <1>8, <2>1, <2>2 DEF Header
    <2>4. z # NIL => /\ z \in DOMAIN h \ {} /\ z # x /\ ~h[z].free /\ h[z].pre \in {} \cup {x} /\ z = x + len
                     /\ m[z].pre = x /\ m[z].next = h[z].next /\ m[z].size = h[z].size /\ ~m[z].free
      BY <1>2, <1>5, <1>10, <1>19, <2>2, <2>3
    <2>5. len \in Int /\ z \in Int /\ x + len <= n /\ (z = NIL => x + len = n) /\ h[x].size <= len
      BY <1>2, <1>3, <1>5, <1>8, <2>2
    <2>6. h[x].pre # NIL => ~h[h[x].pre].free /\ h[x].pre \notin {}
      BY <1>13, <1>19
    <2>7. \A u \in {} \cup {x} : h[u].next \in {} \cup {z} /\ (u = item.at \/ h[u].free)
      BY <1>4, <1>8
    <2>8. \A u \in DOMAIN h \ {} : x < u => x + len <= u
      BY <1>5, <1>6, <2>2
    <2>9. item.at \in {} \cup {x} /\ x \notin {} /\ {} \in SUBSET DOMAIN h
      BY <1>4
    <2> HIDE DEF before, after
    <2>10. CanJoin(h, n, item, x, {}, len, z)
      BY <1>5, <2>4, <2>5, <2>6, <2>7, <2>8, <2>9 DEF CanJoin
    <2>11. HasJoined(h, m, x, {}, len, z)
      BY <2>3, <2>4 DEF HasJoined
    <2>12. AreaOK(m, n, I \ {item})
      BY <2>10, <2>11, JoinOK
    <2> QED  BY <2>12, <1>12, <1>4
  <1> QED  BY <1>16, <1>17, <1>18, <1>19

----------------------------------------------------------------------------
(* The actions. *)

\* A set of numbers that is not empty has a least one.
LEMMA Least ==
  ASSUME NEW T \in SUBSET Nat, T # {}
  PROVE  \E x \in T : \A y \in T : x <= y
  <1> DEFINE R == {p \in Nat \X Nat : p[1] < p[2]}
  <1>1. IsWellFoundedOn(R, Nat)
    BY NatLessThanWellFounded DEF OpToRel
  <1>2. PICK x \in T : \A y \in T : <<y, x>> \notin R
    BY <1>1, WFMin
  <1>3. \A y \in T : ~(y < x)
    BY <1>2
  <1> QED  BY <1>3

\* The search of mb_alloc returns a free block that is large enough.
LEMMA ChosenFits ==
  ASSUME MBInv, NEW n \in Nat, Chosen(n) # <<>>
  PROVE  \E a \in Areas : \E x \in Blocks(a) : Chosen(n) = <<a, x>> /\ Fits(a, x, n)
  <1> DEFINE fit(a) == {x \in Blocks(a) : Fits(a, x, n)}
             first(a) == CHOOSE x \in fit(a) : \A y \in fit(a) : x <= y
  <1>1. ASSUME NEW a \in Areas, fit(a) # {} PROVE first(a) \in fit(a)
    <2>1. fit(a) \in SUBSET Nat
      BY DEF MBInv, AreaOK, Headers, Blocks
    <2>2. \E x \in fit(a) : \A y \in fit(a) : x <= y
      <3> HIDE DEF fit
      <3> QED  BY <1>1, <2>1, Least
    <2> HIDE DEF fit
    <2> QED  BY <2>2
  <1>2. Chosen(n) = IF fit("sys") # {} THEN <<"sys", first("sys")>>
                    ELSE IF fit("usr") # {} THEN <<"usr", first("usr")>> ELSE <<>>
    BY Zenon DEF Chosen
  <1>3. "sys" \in Areas /\ "usr" \in Areas
    BY DEF Areas
  <1> HIDE DEF first
  <1>4. \E a \in Areas : first(a) \in fit(a) /\ Chosen(n) = <<a, first(a)>>
    <2> HIDE DEF fit
    <2> QED  BY <1>1, <1>2, <1>3
  <1> QED  BY <1>4

\* A step that gives area b the headers g, the size n and the items J, and leaves the other
\* area alone.
LEMMA AreaStep ==
  ASSUME MBInv, NEW b \in Areas, NEW g, NEW n, NEW J \in SUBSET Item,
         areasize' = [areasize EXCEPT ![b] = n], hdr' = [hdr EXCEPT ![b] = g],
         items' \subseteq Item, \A i \in items' : i.area = b => i \in J,
         J \subseteq items', \A i \in J : i.area = b,
         \A i \in Item : i.area # b => (i \in items' <=> i \in items),
         AreaOK(g, n, J)
  PROVE  MBInv'
  <1>0. areasize \in [Areas -> Nat] /\ items \subseteq Item /\ hdr = [a \in Areas |-> hdr[a]]
    BY DEF MBInv
  <1>1. n \in Nat
    BY DEF AreaOK, Headers
  <1>2. areasize' \in [Areas -> Nat] /\ hdr' = [a \in Areas |-> hdr'[a]]
    BY <1>0, <1>1
  <1>3. ASSUME NEW a \in Areas PROVE AreaOK(hdr'[a], areasize'[a], {i \in items' : i.area = a})
    <2>1. CASE a = b
      <3>1. {i \in items' : i.area = a} = J
        BY <2>1
      <3>2. hdr'[a] = g /\ areasize'[a] = n
        BY <2>1, <1>0
      <3> QED  BY <3>1, <3>2
    <2>2. CASE a # b
      <3>1. {i \in items' : i.area = a} = {i \in items : i.area = a}
        BY <2>2, <1>0
      <3>2. hdr'[a] = hdr[a] /\ areasize'[a] = areasize[a]
        BY <2>2, <1>0
      <3>3. AreaOK(hdr[a], areasize[a], {i \in items : i.area = a})
        BY DEF MBInv, ItemsOf
      <3> QED  BY <3>1, <3>2, <3>3
    <2> QED  BY <2>1, <2>2
  <1> QED  BY <1>2, <1>3 DEF MBInv, ItemsOf

\* mb_init: one free block.
LEMMA InitStep ==
  ASSUME MBInv, NEW n \in 1..SysSize, mb_init(n)
  PROVE  MBInv'
  <1>1. n \in Nat \ {0} /\ "sys" \in Areas /\ items \subseteq Item
    BY MBAssumption DEF Areas, MBInv
  <1>2. ItemsOf("sys") = {}
    <2>1. areasize["sys"] = 0 /\ AreaOK(hdr["sys"], areasize["sys"], ItemsOf("sys"))
      BY <1>1 DEF mb_init, MBInv
    <2>2. DOMAIN hdr["sys"] = {}
      <3> SUFFICES ASSUME NEW x \in DOMAIN hdr["sys"] PROVE FALSE
        OBVIOUS
      <3>1. x \in Nat /\ hdr["sys"][x].size \in Int /\ hdr["sys"][x].size > 0 /\ x + hdr["sys"][x].size <= 0
        BY <2>1 DEF AreaOK, Headers, Tiles, Header
      <3> QED  BY <3>1
    <2> QED  BY <2>1, <2>2 DEF AreaOK, Holds
  <1>3. AreaOK(Whole(n), n, {})
    BY <1>1, WholeOK
  <1>4. areasize' = [areasize EXCEPT !["sys"] = n] /\ hdr' = [hdr EXCEPT !["sys"] = Whole(n)] /\ items' = items
    BY DEF mb_init
  <1> QED  BY <1>1, <1>2, <1>3, <1>4, AreaStep DEF ItemsOf

\* mb_attach_buffer, of a buffer when there is none.
LEMMA AttachStep ==
  ASSUME MBInv, NEW n \in UsrSizes, mb_attach_buffer(n)
  PROVE  MBInv'
  <1>1. n \in Nat \ {0} /\ "usr" \in Areas /\ items \subseteq Item
    BY MBAssumption DEF Areas, MBInv
  <1>2. ItemsOf("usr") = {}
    <2>1. areasize["usr"] = 0 /\ AreaOK(hdr["usr"], areasize["usr"], ItemsOf("usr"))
      BY <1>1 DEF mb_attach_buffer, MBInv
    <2>2. DOMAIN hdr["usr"] = {}
      <3> SUFFICES ASSUME NEW x \in DOMAIN hdr["usr"] PROVE FALSE
        OBVIOUS
      <3>1. x \in Nat /\ hdr["usr"][x].size \in Int /\ hdr["usr"][x].size > 0 /\ x + hdr["usr"][x].size <= 0
        BY <2>1 DEF AreaOK, Headers, Tiles, Header
      <3> QED  BY <3>1
    <2> QED  BY <2>1, <2>2 DEF AreaOK, Holds
  <1>3. AreaOK(Whole(n), n, {})
    BY <1>1, WholeOK
  <1>4. areasize' = [areasize EXCEPT !["usr"] = n] /\ hdr' = [hdr EXCEPT !["usr"] = Whole(n)] /\ items' = items
    BY DEF mb_attach_buffer
  <1> QED  BY <1>1, <1>2, <1>3, <1>4, AreaStep DEF ItemsOf

\* mb_alloc, whether or not the block is split.
LEMMA AllocStep ==
  ASSUME MBInv, NEW n \in Requests, mb_alloc(n)
  PROVE  MBInv'
  <1>0. n \in Nat /\ Chosen(n) # <<>>
    BY MBAssumption DEF mb_alloc
  <1>13. PICK a \in Areas : \E x \in Blocks(a) : Chosen(n) = <<a, x>> /\ Fits(a, x, n)
    BY <1>0, ChosenFits
  <1>1. PICK x \in Blocks(a) : Chosen(n) = <<a, x>> /\ Fits(a, x, n)
    BY <1>13
  <1>2. Chosen(n)[1] = a /\ Chosen(n)[2] = x
    BY <1>1
  <1>3. PICK h, i : h = hdr[a] /\ i = [area |-> a, at |-> x, len |-> n]
    OBVIOUS
  <1>4. /\ areasize \in [Areas -> Nat] /\ items \subseteq Item /\ hdr = [c \in Areas |-> hdr[c]]
        /\ AreaOK(h, areasize[a], ItemsOf(a))
    BY <1>3 DEF MBInv
  <1>5. x \in DOMAIN h /\ h[x].free /\ h[x].size >= Adjusted(n) /\ x \in Nat /\ h[x].size \in Int
    BY <1>1, <1>3, <1>4 DEF Blocks, Fits, AreaOK, Headers, Header
  <1>6. i \in Item /\ i.at = x /\ i.len = n /\ i.area = a
    BY <1>0, <1>3, <1>5 DEF Item
  <1>7. PICK g : g = IF h[x].size >= Adjusted(n) + MinFragment THEN Split(h, x, n)
                     ELSE [h EXCEPT ![x].free = FALSE]
    OBVIOUS
  <1>8. hdr' = [hdr EXCEPT ![a] = g] /\ items' = items \cup {i} /\ areasize' = areasize
    <2>1. /\ hdr' = [hdr EXCEPT ![a] = IF @[x].size >= Adjusted(n) + MinFragment THEN Split(@, x, n)
                                       ELSE [@ EXCEPT ![x].free = FALSE]]
          /\ items' = items \cup {[area |-> a, at |-> x, len |-> n]}
          /\ areasize' = areasize
      BY <1>2 DEF mb_alloc
    <2>2. [hdr EXCEPT ![a] = IF @[x].size >= Adjusted(n) + MinFragment THEN Split(@, x, n)
                                       ELSE [@ EXCEPT ![x].free = FALSE]] = [hdr EXCEPT ![a] = g]
      BY <1>3, <1>7, Zenon
    <2> QED  BY <2>1, <2>2, <1>3
  <1>9. ItemsOf(a) \in SUBSET Item
    BY <1>4 DEF ItemsOf
  <1>10. AreaOK(g, areasize[a], ItemsOf(a) \cup {i})
    <2>1. CASE h[x].size >= Adjusted(n) + MinFragment
      <3>1. h[x].size > Adjusted(i.len)
        BY <2>1, <1>0, <1>5, <1>6 DEF Adjusted, MinFragment, BUF_HEADER_SIZE
      <3>2. AreaOK(Split(h, x, i.len), areasize[a], ItemsOf(a) \cup {i})
        BY <3>1, <1>4, <1>5, <1>6, <1>9, SplitOK
      <3> QED  BY <3>2, <2>1, <1>6, <1>7
    <2>2. CASE ~(h[x].size >= Adjusted(n) + MinFragment)
      <3>1. AreaOK([h EXCEPT ![x].free = FALSE], areasize[a], ItemsOf(a) \cup {i})
        BY <1>4, <1>5, <1>6, <1>9, TakeOK
      <3> QED  BY <3>1, <2>2, <1>7
    <2> QED  BY <2>1, <2>2
  <1>11. areasize' = [areasize EXCEPT ![a] = areasize[a]]
    BY <1>4, <1>8
  <1>12. /\ ItemsOf(a) \cup {i} \in SUBSET Item /\ items' \subseteq Item
         /\ \A j \in items' : j.area = a => j \in ItemsOf(a) \cup {i}
         /\ ItemsOf(a) \cup {i} \subseteq items' /\ \A j \in ItemsOf(a) \cup {i} : j.area = a
         /\ \A j \in Item : j.area # a => (j \in items' <=> j \in items)
    BY <1>4, <1>6, <1>8, <1>9 DEF ItemsOf
  <1> QED  BY <1>8, <1>10, <1>11, <1>12, AreaStep

\* mb_free, with any merge.
LEMMA FreeStep ==
  ASSUME MBInv, NEW item \in items, mb_free(item)
  PROVE  MBInv'
  <1>1. PICK a : a = item.area
    OBVIOUS
  <1>2. /\ areasize \in [Areas -> Nat] /\ items \subseteq Item /\ hdr = [c \in Areas |-> hdr[c]]
        /\ a \in Areas /\ item \in Item
    BY <1>1 DEF MBInv, Item
  <1>3. AreaOK(hdr[a], areasize[a], ItemsOf(a)) /\ ItemsOf(a) \in SUBSET Item /\ item \in ItemsOf(a)
    BY <1>1, <1>2 DEF MBInv, ItemsOf
  <1>4. AreaOK(Merge(hdr[a], item.at), areasize[a], ItemsOf(a) \ {item})
    BY <1>3, MergeOK
  <1>5. hdr' = [hdr EXCEPT ![a] = Merge(hdr[a], item.at)] /\ items' = items \ {item} /\ areasize' = areasize
    BY <1>1 DEF mb_free
  <1>6. areasize' = [areasize EXCEPT ![a] = areasize[a]]
    BY <1>2, <1>5
  <1>7. /\ ItemsOf(a) \ {item} \in SUBSET Item /\ items' \subseteq Item
        /\ \A j \in items' : j.area = a => j \in ItemsOf(a) \ {item}
        /\ ItemsOf(a) \ {item} \subseteq items' /\ \A j \in ItemsOf(a) \ {item} : j.area = a
        /\ \A j \in Item : j.area # a => (j \in items' <=> j \in items)
    BY <1>1, <1>2, <1>3, <1>5 DEF ItemsOf
  <1>8. PICK g, J : g = Merge(hdr[a], item.at) /\ J = ItemsOf(a) \ {item}
    OBVIOUS
  <1>9. /\ AreaOK(g, areasize[a], J) /\ hdr' = [hdr EXCEPT ![a] = g]
        /\ J \in SUBSET Item /\ items' \subseteq Item /\ J \subseteq items' /\ \A j \in J : j.area = a
        /\ \A j \in items' : j.area = a => j \in J
        /\ \A j \in Item : j.area # a => (j \in items' <=> j \in items)
    BY <1>4, <1>5, <1>7, <1>8, Zenon
  <1> QED  BY <1>2, <1>6, <1>9, AreaStep

\* A buffer that is given back holds nothing: its first block is free and the only one.
LEMMA DetachStep ==
  ASSUME MBInv, mb_detach_buffer
  PROVE  MBInv'
  <1>1. "usr" \in Areas /\ items \subseteq Item
    BY DEF Areas, MBInv
  <1>2. PICK h, n : h = hdr["usr"] /\ n = areasize["usr"]
    OBVIOUS
  <1>3. AreaOK(h, n, ItemsOf("usr")) /\ n > 0 /\ n \in Nat /\ h[0].free /\ h[0].next = NIL
    BY <1>1, <1>2 DEF MBInv, mb_detach_buffer, Busy
  <1>4. 0 \in DOMAIN h /\ DOMAIN h \subseteq Nat /\ h \in [DOMAIN h -> Header]
    BY <1>3 DEF AreaOK, Headers
  <1>5. ASSUME NEW x \in DOMAIN h, x # 0 PROVE FALSE
    <2>1. x \in Nat /\ h[x].size \in Int /\ h[x].size > 0 /\ x + h[x].size <= n
      BY <1>3, <1>4 DEF AreaOK, Tiles, Header
    <2>2. 0 + h[0].size = n
      BY <1>3, <1>4 DEF AreaOK, Tiles
    <2>3. 0 < x
      BY <2>1, <1>5
    <2>4. 0 + h[0].size <= x
      BY <2>3, <1>3, <1>4 DEF AreaOK, Apart
    <2> QED  BY <2>1, <2>2, <2>4, <1>3
  <1>6. ItemsOf("usr") = {}
    <2> SUFFICES ASSUME NEW i \in ItemsOf("usr") PROVE FALSE
      OBVIOUS
    <2>1. i.at \in DOMAIN h /\ ~h[i.at].free
      BY <1>3 DEF AreaOK, Holds
    <2> QED  BY <2>1, <1>5, <1>3
  <1>7. areasize' = [areasize EXCEPT !["usr"] = 0] /\ hdr' = [hdr EXCEPT !["usr"] = NoBlocks] /\ items' = items
    BY DEF mb_detach_buffer
  <1> QED  BY <1>1, <1>6, <1>7, NoBlocksOK, AreaStep DEF ItemsOf

\* mb_end: the system buffer goes.
LEMMA EndStep ==
  ASSUME MBInv, mb_end
  PROVE  MBInv'
  <1>1. "sys" \in Areas /\ items \subseteq Item
    BY DEF Areas, MBInv
  <1>2. /\ areasize' = [areasize EXCEPT !["sys"] = 0] /\ hdr' = [hdr EXCEPT !["sys"] = NoBlocks]
        /\ items' = {i \in items : i.area # "sys"}
    BY DEF mb_end
  <1>3. {} \in SUBSET Item /\ items' \subseteq Item /\ \A i \in items' : i.area # "sys"
    BY <1>1, <1>2
  <1>4. \A i \in Item : i.area # "sys" => (i \in items' <=> i \in items)
    BY <1>2
  <1> QED  BY <1>1, <1>2, <1>3, <1>4, NoBlocksOK, AreaStep

\* The invariant gives what the users of the buffers rely on.
LEMMA InvIsSound == MBInv => AllocatorSound
  <1> SUFFICES ASSUME MBInv PROVE AllocatorSound
    OBVIOUS
  <1>1. ASSUME NEW a \in Areas
        PROVE  /\ DOMAIN hdr[a] \subseteq Nat /\ hdr[a] \in [DOMAIN hdr[a] -> Header] /\ areasize[a] \in Nat
               /\ Tiles(hdr[a], areasize[a]) /\ Apart(hdr[a]) /\ Merged(hdr[a]) /\ Holds(hdr[a], ItemsOf(a))
    BY DEF MBInv, AreaOK, Headers
  <1>2. BlocksTile
    BY <1>1 DEF BlocksTile, Blocks, Tiles
  <1>3. NothingFragmented
    <2> SUFFICES ASSUME NEW a \in Areas, NEW x \in Blocks(a)
                 PROVE  /\ hdr[a][x].free /\ hdr[a][x].next # NIL => ~hdr[a][hdr[a][x].next].free
                        /\ ~hdr[a][x].free <=> \E item \in items : item.area = a /\ item.at = x
      BY DEF NothingFragmented
    <2>1. hdr[a][x].free /\ hdr[a][x].next # NIL => ~hdr[a][hdr[a][x].next].free
      BY <1>1 DEF Merged, Blocks
    <2>2. ~hdr[a][x].free <=> \E item \in ItemsOf(a) : item.at = x
      BY <1>1 DEF Holds, Blocks
    <2> QED  BY <2>1, <2>2 DEF ItemsOf
  <1>4. ItemsDisjoint
    <2> DEFINE Cells(i) == (i.at + BUF_HEADER_SIZE)..(i.at + BUF_HEADER_SIZE + i.len - 1)
    <2> SUFFICES ASSUME NEW i \in items
                 PROVE  /\ i.at + BUF_HEADER_SIZE + i.len <= areasize[i.area]
                        /\ \A x \in Blocks(i.area) : x \notin Cells(i)
                        /\ \A j \in items : i # j /\ i.area = j.area => Cells(i) \cap Cells(j) = {}
      BY Zenon DEF ItemsDisjoint
    <2>1. PICK a, h : a = i.area /\ h = hdr[i.area]
      OBVIOUS
    <2>2. /\ a \in Areas /\ areasize[a] \in Nat /\ Tiles(h, areasize[a]) /\ Apart(h) /\ Holds(h, ItemsOf(a))
          /\ DOMAIN h \subseteq Nat /\ h \in [DOMAIN h -> Header] /\ items \subseteq Item
      BY <2>1, <1>1 DEF MBInv, Item
    <2>3. ASSUME NEW j \in items, j.area = a
          PROVE  /\ j.at \in DOMAIN h /\ j.at \in Nat /\ j.len \in Nat /\ h[j.at].size \in Int
                 /\ j.at + 1 + j.len <= j.at + h[j.at].size /\ j.at + h[j.at].size <= areasize[a]
      <3>1. j \in ItemsOf(a) /\ j.len \in Nat
        BY <2>2, <2>3 DEF ItemsOf, Item
      <3>2. j.at \in DOMAIN h /\ Adjusted(j.len) <= h[j.at].size
        BY <3>1, <2>2 DEF Holds
      <3>3. j.at \in Nat /\ h[j.at].size \in Int /\ j.at + h[j.at].size <= areasize[a]
        BY <3>2, <2>2 DEF Tiles, Header
      <3> QED  BY <3>1, <3>2, <3>3 DEF Adjusted, BUF_HEADER_SIZE
    <2>4. i.at + BUF_HEADER_SIZE + i.len <= areasize[i.area]
      BY <2>1, <2>2, <2>3 DEF BUF_HEADER_SIZE
    <2>5. \A x, y \in DOMAIN h : x < y => x + h[x].size <= y
      BY <2>2 DEF Apart
    <2>6. ASSUME NEW x \in Blocks(i.area) PROVE x \notin Cells(i)
      <3>1. x \in DOMAIN h /\ x \in Nat
        BY <2>1, <2>2, <2>6 DEF Blocks
      <3>2. i.at < x => i.at + 1 + i.len <= x
        BY <2>1, <2>3, <2>5, <3>1
      <3> QED  BY <3>1, <3>2, <2>1, <2>3 DEF BUF_HEADER_SIZE
    <2>7. ASSUME NEW j \in items, i # j, i.area = j.area PROVE Cells(i) \cap Cells(j) = {}
      <3>1. i.at # j.at
        BY <2>1, <2>2, <2>7 DEF Holds, ItemsOf
      <3>2. i.at < j.at => i.at + 1 + i.len <= j.at
        BY <2>1, <2>3, <2>5, <2>7
      <3>3. j.at < i.at => j.at + 1 + j.len <= i.at
        BY <2>1, <2>3, <2>5, <2>7
      <3>4. i.at \in Nat /\ j.at \in Nat /\ i.len \in Nat /\ j.len \in Nat
        BY <2>1, <2>3, <2>7
      <3> QED  BY <3>1, <3>2, <3>3, <3>4 DEF BUF_HEADER_SIZE
    <2> QED  BY <2>4, <2>6, <2>7
  <1> QED  BY <1>2, <1>3, <1>4 DEF AllocatorSound

\* The allocator of message buffers (mbuffer.c): for any sizes, and whatever is allocated and
\* freed in whatever order, blocks tile their buffers, are merged when they become free,
\* and items do not overlap each other, the headers or the end of the buffer.
THEOREM AllocatorIsSound == MBSpec => []AllocatorSound
  <1>1. MBInit => MBInv
    <2> SUFFICES ASSUME MBInit PROVE MBInv
      OBVIOUS
    <2>1. areasize \in [Areas -> Nat] /\ items \subseteq Item /\ hdr = [a \in Areas |-> hdr[a]]
      BY DEF MBInit
    <2>2. ASSUME NEW a \in Areas PROVE AreaOK(hdr[a], areasize[a], ItemsOf(a))
      <3>1. hdr[a] = NoBlocks /\ areasize[a] = 0 /\ ItemsOf(a) = {}
        BY DEF MBInit, ItemsOf
      <3> QED  BY <3>1, NoBlocksOK
    <2> QED  BY <2>1, <2>2 DEF MBInv
  <1>2. MBInv /\ [MBNext]_mbuffer => MBInv'
    <2> SUFFICES ASSUME MBInv, [MBNext]_mbuffer PROVE MBInv'
      OBVIOUS
    <2>1. CASE UNCHANGED mbuffer
      BY <2>1 DEF mbuffer, MBInv, ItemsOf
    <2>2. CASE MBNext
      BY <2>2, InitStep, AllocStep, FreeStep, AttachStep, DetachStep, EndStep DEF MBNext
    <2> QED  BY <2>1, <2>2
  <1> QED  BY <1>1, <1>2, InvIsSound, PTL DEF MBSpec
=============================================================================
