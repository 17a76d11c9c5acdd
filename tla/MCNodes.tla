------------------------------ MODULE MCNodes ------------------------------
(***************************************************************************)
(* The nodes of one machine: broadcasts from one root, and reductions to   *)
(* one.  The two objects share nothing, so a behaviour is one of one part. *)
(***************************************************************************)
EXTENDS Bcast

CONSTANTS r1, r2, ReduceRounds

TwoReaders == {r1, r2}

VARIABLES
  part,
  next2, avail2, data2, first2, free2, made2, key2, pc2, asleep2, item2, new2, link2,
  acc2, fails2, spurious2, out2, result2
vars2 == <<next2, avail2, data2, first2, free2, made2, key2, pc2, asleep2, item2, new2,
           link2, acc2, fails2, spurious2, out2, result2>>

\* The reduction of the root and one other node.
R == INSTANCE Reduce WITH
  Nodes <- {Root, r1}, Rounds <- ReduceRounds,
  next <- next2, avail <- avail2, data <- data2, first <- first2, free <- free2,
  made <- made2, key <- key2, pc <- pc2, asleep <- asleep2, item <- item2, new <- new2,
  link <- link2, acc <- acc2, fails <- fails2, spurious <- spurious2, out <- out2,
  result <- result2

ASSUME ReduceAssumption == R!ConstantsAllowed

----------------------------------------------------------------------------
NodesInit == part \in {"bcast", "reduce"} /\ Init /\ R!Init

NodesNext ==
  /\ UNCHANGED part
  /\ \/ part = "bcast" /\ Next /\ UNCHANGED vars2
     \/ part = "reduce" /\ R!Next /\ UNCHANGED vars

\* Every node of the part is scheduled.
NodesFairness ==
  /\ WF_vars(part = "bcast" /\ RootStep)
  /\ \A t \in Readers : WF_vars(part = "bcast" /\ ReaderStep(t))
  /\ \A t \in {Root, r1} : WF_vars2(part = "reduce" /\ R!Step(t))

NodesSpec == NodesInit /\ [][NodesNext]_<<part, vars, vars2>> /\ NodesFairness

----------------------------------------------------------------------------
\* Every broadcast returns at the root and at every reader (AllReturn of Bcast), in the
\* behaviours of that part.
BcastsReturn == part = "bcast" => AllReturn

\* Two nodes: the root of a reduction gets the operands of both, of the same call
\* (intra/reduce.c:352, "wait for result to come").
ResultComplete == R!ResultComplete

\* Two nodes: their k-th calls succeed together or fail together, whichever of them
\* opens the item and whichever allocation fails (intra/reduce.c:334).
ReturnsAgree == R!ReturnsAgree

\* Two nodes: no handle is handed out twice or used after it was freed
\* (intra/reduce.c:150, 401).  The run reduce_memory shows three nodes.
PairMemorySound == R!PairMemorySound

\* Every reduction returns at both nodes, in the behaviours of that part.
ReductionsReturn == part = "reduce" => R!AllReturn
=============================================================================
