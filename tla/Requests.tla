------------------------------ MODULE Requests ------------------------------
(***************************************************************************)
(* The calls on arrays of requests (mpi/pt2pt/mpi_sr.c): MPI_Startall, the *)
(* Test and the Wait calls.  They go through the array request by request, *)
(* each under its own lock, while other nodes complete requests: those of  *)
(* the module Intra, seen here by what tmpi_Test and tmpi_Wait do to them. *)
(* They are receives, and sends that have a system buffer: of a send       *)
(* without one (synchronous, ready) that is not over tmpi_Test would keep  *)
(* the lock (intra_sr.c:1361-1363), and it could not complete any more.    *)
(***************************************************************************)
EXTENDS Integers, Sequences

CONSTANTS
  NReq,         \* requests of the array, counted from 0
  Persistent,   \* those made by MPI_Send_init
  MaxCalls      \* bound: calls

Reqs == 0..(NReq - 1)

\* An array of no requests is not passed on: MPI_Waitany would wait for its first.
ASSUME RequestsAssumption == NReq \in Nat \ {0} /\ Persistent \subseteq Reqs

Ops == {"Startall", "Testall", "Testany", "Testsome", "Waitall", "Waitany", "Waitsome"}
NoCall == "none"

VARIABLES
  req,     \* MPI_REQUEST_NULL, inactive (TMPI_FREE), pending or done (TMPI_MATCH)
  op, phase, pos,   \* the call that goes on, and where in the array it is
  flag,    \* *flag of Testall, flag of the others
  out,     \* the indices it reports
  took,    \* history: the requests whose completion it has taken
  ncalls

requests == <<req, op, phase, pos, flag, out, took, ncalls>>

RequestsInit ==
  /\ req = [i \in Reqs |-> IF i \in Persistent THEN "inactive" ELSE "pending"]
  /\ op = NoCall /\ phase = NoCall /\ pos = 0 /\ flag = FALSE /\ out = <<>> /\ took = {} /\ ncalls = 0

\* What is left of a request whose completion is taken.
AfterTake(i) == IF i \in Persistent THEN "inactive" ELSE "null"
Take(i) == req' = [req EXCEPT ![i] = AfterTake(i)] /\ took' = took \cup {i}
Keep == UNCHANGED <<req, took>>

\* tmpi_Test writes the flag of a request that is pending or done only: a null
\* request is answered MPI_SUCCESS, an inactive one an error.
TestFlag(i, before) == IF req[i] \in {"null", "inactive"} THEN before ELSE req[i] = "done"
tmpi_Test(i) == IF req[i] = "done" THEN Take(i) ELSE Keep
\* tmpi_Wait sleeps until the request is done, and returns at once from the others.
tmpi_Wait(i) == req[i] # "pending" /\ tmpi_Test(i)

CallReqs(o) ==
  /\ op = NoCall /\ ncalls < MaxCalls
  /\ op' = o /\ phase' = "scan" /\ pos' = 0 /\ flag' = (o = "Testall") /\ out' = <<>> /\ took' = {}
  /\ ncalls' = ncalls + 1 /\ UNCHANGED req

Scanning(ops) == op \in ops /\ phase = "scan" /\ pos < NReq
Advance == pos' = pos + 1 /\ UNCHANGED <<op, ncalls>>

tmpi_Startall ==
  /\ Scanning({"Startall"}) /\ Advance
  /\ req' = IF req[pos] = "inactive" THEN [req EXCEPT ![pos] = "pending"] ELSE req
  /\ UNCHANGED <<phase, flag, out, took>>

tmpi_Waitall ==
  /\ Scanning({"Waitall"}) /\ tmpi_Wait(pos) /\ Advance
  /\ UNCHANGED <<phase, flag, out>>

tmpi_Testall ==
  /\ Scanning({"Testall"}) /\ tmpi_Test(pos) /\ Advance
  /\ flag' = (flag /\ TestFlag(pos, TRUE))
  /\ UNCHANGED <<phase, out>>

\* The first that is done ends the loop.
tmpi_Testany ==
  /\ Scanning({"Testany", "Waitany"}) /\ tmpi_Test(pos)
  /\ flag' = TestFlag(pos, flag)
  /\ IF flag' THEN out' = <<pos>> /\ pos' = NReq /\ UNCHANGED <<op, ncalls>>
              ELSE UNCHANGED out /\ Advance
  /\ UNCHANGED phase

\* Faulty: flag is not reset for each request.
tmpi_Testsome_flag ==
  /\ Scanning({"Testsome", "Waitsome"}) /\ tmpi_Test(pos) /\ Advance
  /\ flag' = TestFlag(pos, flag)
  /\ out' = IF flag' THEN Append(out, pos) ELSE out
  /\ UNCHANGED phase

tmpi_Testsome ==
  /\ Scanning({"Testsome", "Waitsome"}) /\ tmpi_Test(pos) /\ Advance
  /\ flag' = TestFlag(pos, FALSE)
  /\ out' = IF flag' THEN Append(out, pos) ELSE out
  /\ UNCHANGED phase

\* Nothing was done: wait for the first request, whichever it is.
tmpi_Waitany ==
  /\ op \in {"Waitany", "Waitsome"} /\ phase = "scan" /\ pos = NReq /\ out = <<>>
  /\ tmpi_Wait(0) /\ out' = <<0>>
  /\ phase' = "rescan" /\ pos' = 1 /\ UNCHANGED <<op, flag, ncalls>>

\* MPI_Waitsome then goes through the others again.
tmpi_Waitsome ==
  /\ op = "Waitsome" /\ phase = "rescan" /\ pos < NReq /\ tmpi_Test(pos) /\ Advance
  /\ flag' = TestFlag(pos, FALSE)
  /\ out' = IF flag' THEN Append(out, pos) ELSE out
  /\ UNCHANGED phase

AtEnd ==
  \/ op \in {"Startall", "Testall", "Waitall", "Testany", "Testsome"} /\ pos = NReq
  \/ op \in {"Waitany", "Waitsome"} /\ phase = "scan" /\ pos = NReq /\ out # <<>>
  \/ op = "Waitany" /\ phase = "rescan"
  \/ op = "Waitsome" /\ phase = "rescan" /\ pos = NReq

ReturnReqs ==
  /\ AtEnd
  /\ op' = NoCall /\ phase' = NoCall /\ pos' = 0 /\ flag' = FALSE /\ out' = <<>> /\ took' = {}
  /\ UNCHANGED <<req, ncalls>>

\* The node at the other end, in Intra and Inter.
CompleteReq(i) ==
  /\ req[i] = "pending" /\ req' = [req EXCEPT ![i] = "done"]
  /\ UNCHANGED <<op, phase, pos, flag, out, took, ncalls>>

RequestsWork == \/ tmpi_Startall \/ tmpi_Waitall \/ tmpi_Testall \/ tmpi_Testany \/ tmpi_Testsome
        \/ tmpi_Waitany \/ tmpi_Waitsome \/ ReturnReqs
RequestsNext == (\E o \in Ops : CallReqs(o)) \/ RequestsWork \/ (\E i \in Reqs : CompleteReq(i))

RequestsSpec == RequestsInit /\ [][RequestsNext]_requests

----------------------------------------------------------------------------
Reported == {out[k] : k \in 1..Len(out)}

\* Several completions may happen while a call goes through the array, before and
\* behind the place where it is: those it takes, by freeing the request, are the ones
\* it reports, once each and in order, and MPI_Waitany and MPI_Testany take one at
\* most.  (When MPI_Waitany or MPI_Waitsome has waited for a request that was not
\* active, index 0 is reported and nothing was done.)
TakesWhatItReports ==
  AtEnd /\ op \in {"Testany", "Waitany", "Testsome", "Waitsome"} =>
    /\ took \subseteq Reported
    /\ Reported \subseteq took \cup (IF phase = "rescan" THEN {0} ELSE {})
    /\ \A j, k \in 1..Len(out) : j < k => out[j] < out[k]
    /\ op \in {"Testany", "Waitany"} => Len(out) <= 1

\* MPI_Waitall returns, and MPI_Testall says so, only when no request of the array is
\* left pending, although each was looked at at another time.
AllMeansAll ==
  AtEnd /\ (op = "Waitall" \/ (op = "Testall" /\ flag)) => \A i \in Reqs : req[i] \notin {"pending", "done"}

\* The calls on arrays of requests release those they report, and only those.
ArraysSound == TakesWhatItReports /\ AllMeansAll
=============================================================================
