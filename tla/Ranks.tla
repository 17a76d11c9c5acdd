------------------------------- MODULE Ranks -------------------------------
(***************************************************************************)
(* Which MPI node is where: the group file (netq_parseGrpFile), the rank   *)
(* tables that netq_start makes of it on every machine, and the routing of *)
(* a message by them.  A line of the file is the number of nodes of a      *)
(* machine and the list of the ranks asked for, in tokens <<from, to>>; a  *)
(* token that is neither a number nor a range is Bad.                      *)
(***************************************************************************)
EXTENDS Integers, Sequences, FiniteSets, SequencesExt

CONSTANTS
  GroupFiles,   \* the group files programs are started with
  Bad           \* a token that cannot be read

VARIABLES
  stage,      \* "file" is there, "list" is made of it, "tables" are made
  file,       \* the group file: a sequence of [nNodes, ids]
  mac_list,   \* of each machine: [nNodes, nodeIDs]; <<>> when the file is refused
  gTable,     \* of each global rank: its machine and its rank there
  lTable      \* of each machine: the global ranks of its nodes

ranks == <<stage, file, mac_list, gTable, lTable>>

RanksInit ==
  /\ stage = "file" /\ file \in GroupFiles
  /\ mac_list = <<>> /\ gTable = <<>> /\ lTable = <<>>

Total(macs) == FoldLeft(LAMBDA n, mac : n + mac.nNodes, 0, macs)

----------------------------------------------------------------------------
NULL == [nNodes |-> -1, nodeIDs |-> <<>>]

\* A number, or a range that may start at either end.
RanksOf(token) ==
  LET lo == IF token[1] <= token[2] THEN token[1] ELSE token[2]
      hi == IF token[1] <= token[2] THEN token[2] ELSE token[1]
  IN [k \in 1..(hi - lo + 1) |-> lo + k - 1]

\* More ranks than the machine has nodes are refused, and so is a bad token.  The
\* nodes that are left have no rank yet (-1).
parse_one_line(line) ==
  LET Take(ids, token) ==
        IF ids = Bad \/ token = Bad THEN Bad
        ELSE IF Len(ids) + Len(RanksOf(token)) > line.nNodes THEN Bad
        ELSE ids \o RanksOf(token)
      ids == FoldLeft(Take, <<>>, line.ids)
  IN IF line.nNodes < 0 \/ ids = Bad THEN NULL
     ELSE [nNodes |-> line.nNodes,
           nodeIDs |-> [j \in 1..line.nNodes |-> IF j <= Len(ids) THEN ids[j] ELSE -1]]

Slots(macs) == {<<i, j>> \in (1..Len(macs)) \X (1..Total(macs)) : j <= macs[i].nNodes}

\* Faulty: only the ranks of one machine are compared.
DistinctHere(macs) ==
  \A s \in Slots(macs) : \A t \in Slots(macs) :
    LET id == macs[s[1]].nodeIDs[s[2]] IN
    /\ id < Total(macs)
    /\ id # -1 /\ s # t /\ s[1] = t[1] => macs[t[1]].nodeIDs[t[2]] # id

\* used[]: a rank that is asked for is smaller than their number and asked for once.
Distinct(macs) ==
  \A s \in Slots(macs) : \A t \in Slots(macs) :
    LET id == macs[s[1]].nodeIDs[s[2]] IN
    /\ id < Total(macs)
    /\ id # -1 /\ s # t => macs[t[1]].nodeIDs[t[2]] # id

\* The other nodes get the ranks that are left, smallest first.
Complete(macs) ==
  LET Fill(acc, id) ==   \* acc: ranks given so far, ranks used
        LET k == CHOOSE k \in 0..Total(macs) :
                   k \notin acc.used /\ \A l \in 0..(k - 1) : l \in acc.used
            new == IF id = -1 THEN k ELSE id
        IN [given |-> Append(acc.given, new), used |-> acc.used \cup {new}]
      ids == FoldLeft(LAMBDA s, mac : s \o mac.nodeIDs, <<>>, macs)
      given == FoldLeft(Fill, [given |-> <<>>, used |-> {ids[n] : n \in 1..Len(ids)}], ids).given
      before(i) == Total(SubSeq(macs, 1, i - 1))
  IN [i \in 1..Len(macs) |->
        [macs[i] EXCEPT !.nodeIDs = [j \in 1..macs[i].nNodes |-> given[before(i) + j]]]]

netq_parseGrpFile(f) ==
  LET macs == [i \in 1..Len(f) |-> parse_one_line(f[i])]
      ok == (\A i \in 1..Len(f) : macs[i] # NULL) /\ Distinct(macs)
  IN [ok |-> ok, macs |-> IF ok THEN Complete(macs) ELSE <<>>]

Parse ==
  LET parsed == netq_parseGrpFile(file) IN
  /\ stage = "file"
  /\ mac_list' = parsed.macs
  /\ stage' = IF parsed.ok THEN "list" ELSE "refused"
  /\ UNCHANGED <<file, gTable, lTable>>

Entry(i, j) == [macID |-> i - 1, localID |-> j - 1]

\* The last part of netq_start, the same on all machines.
MakeTables ==
  /\ stage = "list"
  /\ stage' = "tables"
  /\ gTable' = [g \in 0..(Total(mac_list) - 1) |->
                 LET s == CHOOSE s \in Slots(mac_list) : mac_list[s[1]].nodeIDs[s[2]] = g
                 IN Entry(s[1], s[2])]
  /\ lTable' = [i \in 1..Len(mac_list) |-> mac_list[i].nodeIDs]
  /\ UNCHANGED <<file, mac_list>>

RanksNext == Parse \/ MakeTables
RanksSpec == RanksInit /\ [][RanksNext]_ranks

----------------------------------------------------------------------------
(***************************************************************************)
(* The queries, on machine m (counted from 0, as its netd id), and routing *)
(***************************************************************************)
GlobalRanks == DOMAIN gTable
netq_getMacID(g) == IF g \in GlobalRanks THEN gTable[g].macID ELSE -1
netq_transGlobalRank(g) == IF g \in GlobalRanks THEN gTable[g] ELSE [macID |-> -1, localID |-> -1]
netq_findGlobalRank(e) ==
  IF \E g \in GlobalRanks : gTable[g] = e
  THEN CHOOSE g \in GlobalRanks : gTable[g] = e /\ \A h \in GlobalRanks : gTable[h] = e => g <= h
  ELSE -1
netq_transLocalRank(m, l) ==
  IF l \in 0..(Len(lTable[m + 1]) - 1) THEN lTable[m + 1][l + 1] ELSE -1
netq_isLocalNode(m, g) == netq_transGlobalRank(g).macID = m /\ g \in GlobalRanks
tmpi_grank_to_lrank(m, g) ==
  IF netq_isLocalNode(m, g) THEN netq_transGlobalRank(g).localID ELSE -1

\* The four fields NETQ writes into the header of a message and reads from it.
FillHeader(from, to, hdrlen, pldlen) ==
  [from |-> from, to |-> to, hdrlen |-> hdrlen, pldlen |-> pldlen]

\* netq_real_send: the machine the message goes to, and its header.
netq_real_send(from, to) ==
  [mac |-> netq_transGlobalRank(to).macID, header |-> FillHeader(from, to, 0, 0)]

----------------------------------------------------------------------------
\* The file as net/netd/README.grp describes it: each line has nodes, and asks for no more
\* ranks than it has nodes.
Between(t) == (t[1]..t[2]) \cup (t[2]..t[1])
NAsked(line) == FoldLeft(LAMBDA n, t : n + Cardinality(Between(t)), 0, line.ids)
Asked(line) == UNION {Between(line.ids[k]) : k \in 1..Len(line.ids)}
Legal(f) ==
  /\ \A i \in 1..Len(f) : /\ f[i].nNodes > 0
                          /\ \A k \in 1..Len(f[i].ids) : f[i].ids[k] # Bad
                          /\ NAsked(f[i]) <= f[i].nNodes
  /\ LET asked == UNION {Asked(f[i]) : i \in 1..Len(f)} IN
       /\ asked \subseteq 0..(Total(f) - 1)
       /\ Cardinality(asked) = FoldLeft(LAMBDA n, line : n + NAsked(line), 0, f)

\* netq_parseGrpFile accepts the files that net/netd/README.grp describes and, of those
\* that have nodes on every line, no others.  (It also accepts lines with 0 nodes, which
\* README.grp:9, "#nodes > 0", rules out: netq.c:891 refuses negative numbers only.)  In
\* what it returns every rank occurs once, the ranks a line asks for, at either end of a
\* range, are those of the first nodes of its machine, and the others are dealt out in
\* increasing order (netq.c:866-1032).
GroupFileRanks ==
  stage # "file" =>
    /\ Legal(file) => stage # "refused"
    /\ stage # "refused" /\ (\A i \in 1..Len(file) : file[i].nNodes > 0) => Legal(file)
    /\ stage # "refused" =>
         LET Id(s) == mac_list[s[1]].nodeIDs[s[2]]
             dealt == {s \in Slots(mac_list) : s[2] > NAsked(file[s[1]])}
         IN
         /\ {Id(s) : s \in Slots(mac_list)} = 0..(Total(file) - 1)
         /\ \A i \in 1..Len(file) :
              {Id(s) : s \in {t \in Slots(mac_list) \ dealt : t[1] = i}} = Asked(file[i])
         /\ \A s, t \in dealt : (s[1] < t[1] \/ (s[1] = t[1] /\ s[2] < t[2])) => Id(s) < Id(t)

\* "invariant: machines[macID].nodeIDs[localID] == index" (netq.h:21), on which routing
\* rests: a message for a global rank gets to the machine of that node, which finds
\* the node's own channel by the rank in the header; the translations are inverse
\* to each other, and no two nodes share a channel.
RoutedToItsNode ==
  stage = "tables" =>
    \A g \in GlobalRanks :
      LET x == netq_real_send(0, g)
          l == tmpi_grank_to_lrank(x.mac, x.header.to)
      IN /\ netq_transLocalRank(x.mac, l) = g
         /\ netq_findGlobalRank([macID |-> x.mac, localID |-> l]) = g
         /\ \A m \in 0..(Len(mac_list) - 1) : netq_isLocalNode(m, g) <=> m = netq_getMacID(g)
         /\ \A h \in GlobalRanks \ {g} : netq_transGlobalRank(h) # netq_transGlobalRank(g)
=============================================================================
