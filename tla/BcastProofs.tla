---------------------------- MODULE BcastProofs ----------------------------
(***************************************************************************)
(* The broadcast queue of one root: every reader gets what the root sent,  *)
(* and no handle is lost, handed out twice or used after it was freed, for *)
(* any number of readers, broadcasts, handles, failed allocations and      *)
(* spurious wake-ups.                                                      *)
(***************************************************************************)
EXTENDS Bcast, FiniteSetTheorems, WellFoundedInduction, TLAPS

\* How many broadcasts the root has completed, and how many items a reader has left.
Sent == Len(out[Root])
Left(t) == IF pc[t] = "leave" THEN Len(out[t]) - 1 ELSE Len(out[t])
Gone(k) == {t \in Readers : Left(t) >= k}

RootPlaces == {"out", "pop", "cas", "splice", "splice_cas", "fill", "publish"}
ReaderPlaces == {"out", "lock", "sleep", "copy", "leave", "retire", "push", "push_cas"}

\* The queue: L[k] is the item of round k, rounds 1..b are over, and n is the last round
\* there is an item for.
Broken(b, n, L) == b = n \/ next[L[n]] = Bad
QueueIs(b, n, L) ==
  /\ b \in Nat /\ n \in Nat /\ b <= n /\ 1 <= n
  /\ \A k \in (b + 1)..n : L[k] \in 0..(made - 1)
  /\ \A i, j \in (b + 1)..n : L[i] = L[j] => i = j
  /\ \A k \in (b + 1)..(n - 1) : next[L[k]] = L[k + 1]
  /\ b < n => first = L[b + 1] /\ next[L[n]] \in {Null, Bad}
  /\ b = n => first = Bad

\* The pool: a stack of p handles, of which P[p] is on top.
PoolIs(p, P) ==
  /\ p \in Nat
  /\ \A i \in 1..p : P[i] \in 0..(made - 1)
  /\ \A i, j \in 1..p : P[i] = P[j] => i = j
  /\ \A i \in 2..p : next[P[i]] = P[i - 1]
  /\ p > 0 => free = P[p] /\ next[P[1]] = Null
  /\ p = 0 => free = Null

\* A handle is in one place.
InQueue(b, n, L, h) == \E k \in (b + 1)..n : L[k] = h
InPool(p, P, h) == \E i \in 1..p : P[i] = h
Holds(t, h) ==
  \/ pc[t] \in {"push", "push_cas"} /\ h = item[t]
  \/ pc[t] = "fill" /\ h = new
  \/ pc[t] \in {"splice", "splice_cas"} /\ new <= h /\ h < new + group_size
Placed(b, n, L, p, P) ==
  \A h \in Handles :
    /\ h < made <=> InQueue(b, n, L, h) \/ InPool(p, P, h) \/ \E t \in Nodes : Holds(t, h)
    /\ ~(InQueue(b, n, L, h) /\ InPool(p, P, h))
    /\ \A t \in Nodes : Holds(t, h) =>
         /\ ~InQueue(b, n, L, h) /\ ~InPool(p, P, h)
         /\ \A u \in Nodes : u # t => ~Holds(u, h)

\* Where the root is.
RootIs(b, n, L) ==
  /\ pc[Root] \in RootPlaces /\ b <= Sent /\ (pc[Root] # "out" => Sent < Rounds)
  /\ pc[Root] = "out" =>
       IF Broken(b, n, L) THEN n <= Sent /\ key[Root] = Bad
       ELSE n = Sent + 1 /\ (key[Root] = L[n] \/ (key[Root] = Null /\ n = 1))
  /\ pc[Root] \notin {"out", "publish"} => ~Broken(b, n, L) /\ n = Sent + 1 /\ item[Root] = L[n]
  /\ pc[Root] = "publish" =>
       /\ item[Root] = L[Sent + 1]
       /\ IF new = Bad THEN Broken(b, n, L) /\ n = Sent + 1
          ELSE ~Broken(b, n, L) /\ n = Sent + 2 /\ new = L[n]

\* What the root has read of the pool: it is the only one that takes handles out, so the
\* handle it read is still there, and with the same next one.
AllocIs(p, P) ==
  /\ pc[Root] = "pop" => new = Null \/ InPool(p, P, new)
  /\ pc[Root] = "cas" => InPool(p, P, new) /\ link = next[new]
  /\ pc[Root] = "fill" => new \in 0..(made - 1) \cup {Bad}
  /\ pc[Root] \in {"splice", "splice_cas"} =>
       /\ new \in Nat /\ new + group_size = made
       /\ \A h \in Handles : new < h /\ h < new + group_size - 1 => next[h] = h + 1

\* What is in the items.
ItemsAre(b, n, L) ==
  /\ \A k \in (b + 1)..n :
       IF k <= Sent THEN /\ data[L[k]] = out[Root][k]
                         /\ avail[L[k]] = 1 + Cardinality(Gone(k))
       ELSE avail[L[k]] = 0
  /\ \A k \in 1..Sent : k > n => out[Root][k] = -1

\* Where a reader is.
ReaderIs(b, n, L, t) ==
  /\ pc[t] \in ReaderPlaces /\ b <= Left(t)
  /\ Len(out[t]) <= Sent \/ n <= Sent
  /\ pc[t] \in {"lock", "sleep", "copy"} => Len(out[t]) < n /\ item[t] = L[Len(out[t]) + 1]
  /\ pc[t] = "copy" => Len(out[t]) < Sent
  /\ pc[t] = "leave" => /\ b < Len(out[t]) /\ Len(out[t]) <= n /\ Len(out[t]) <= Sent
                        /\ item[t] = L[Len(out[t])]
  /\ pc[t] = "retire" => /\ b < n /\ Len(out[t]) = b + 1 /\ b < Sent /\ item[t] = L[b + 1]
                         /\ \A u \in Readers : b < Left(u) /\ (u # t => pc[u] # "retire")
  /\ pc[t] \in {"push", "push_cas"} => item[t] \in Handles
  /\ pc[t] \notin {"lock", "sleep", "copy"} =>
       \/ key[t] = Null /\ Len(out[t]) = 0
       \/ Len(out[t]) < n /\ key[t] = L[Len(out[t]) + 1]
       \/ n <= Len(out[t]) /\ n <= Sent /\ Broken(b, n, L) /\ key[t] = Bad

\* An item that everybody has left is being retired, so items are retired in order.
Retiring(b, n) ==
  b < n /\ (\A t \in Readers : b < Left(t)) => \E u \in Readers : pc[u] = "retire"

InvFor(b, n, L, p, P) ==
  /\ QueueIs(b, n, L) /\ PoolIs(p, P) /\ Placed(b, n, L, p, P) /\ RootIs(b, n, L) /\ AllocIs(p, P)
  /\ ItemsAre(b, n, L) /\ (\A t \in Readers : ReaderIs(b, n, L, t)) /\ Retiring(b, n)

BInv == TypeOK /\ \E b, n, p \in Nat, L, P \in [Nat -> Handles] : InvFor(b, n, L, p, P)

----------------------------------------------------------------------------
(* Facts that many steps need. *)

\* The root is one of two nodes or more.
LEMMA GroupIs ==
  /\ IsFiniteSet(Readers) /\ Cardinality(Readers) \in Nat /\ group_size = Cardinality(Readers) + 1
  /\ group_size \in Nat /\ group_size >= 2 /\ Root \in Nodes /\ Root \notin Readers
  /\ Readers \subseteq Nodes /\ \A t \in Nodes : t = Root \/ t \in Readers
  /\ MaxHandles \in Nat
  <1>1. IsFiniteSet(Readers) /\ Cardinality(Readers) \in Nat /\ Cardinality(Readers) # 0
    BY NodesAssumption, FS_CardinalityType, FS_EmptySet
  <1> QED  BY <1>1, NodesAssumption, BoundsAssumption DEF group_size, Nodes

\* The readers that have left an item are finitely many, and all of them when their number
\* is that of the readers.
LEMMA GoneIs ==
  ASSUME NEW S \in SUBSET Readers
  PROVE  /\ IsFiniteSet(S) /\ Cardinality(S) \in Nat /\ Cardinality(S) <= Cardinality(Readers)
         /\ Cardinality(S) = Cardinality(Readers) <=> S = Readers
         /\ Cardinality({}) = 0
         /\ \A t \in Readers : t \notin S => Cardinality(S \cup {t}) = Cardinality(S) + 1
  <1>1. IsFiniteSet(Readers)
    BY GroupIs
  <1>2. IsFiniteSet(S) /\ Cardinality(S) <= Cardinality(Readers) /\ (Cardinality(S) = Cardinality(Readers) => S = Readers)
    BY <1>1, FS_Subset
  <1>3. Cardinality(S) \in Nat
    BY <1>2, FS_CardinalityType
  <1>4. \A t \in Readers : t \notin S => Cardinality(S \cup {t}) = Cardinality(S) + 1
    BY <1>2, FS_AddElement
  <1> QED  BY <1>2, <1>3, <1>4, FS_EmptySet

\* Numbers.
LEMMA NumbersAre ==
  ASSUME TypeOK
  PROVE  /\ Sent \in Nat /\ made \in Nat /\ made <= MaxHandles
         /\ \A t \in Nodes : Len(out[t]) \in Nat /\ Left(t) \in Int /\ Left(t) <= Len(out[t])
         /\ \A t \in Nodes : pc[t] # "leave" => Left(t) = Len(out[t])
  <1>1. \A t \in Nodes : Len(out[t]) \in Nat
    BY DEF TypeOK
  <1> QED  BY <1>1, GroupIs DEF TypeOK, Left, Sent

\* A step that leaves the items of the queue alone.
LEMMA QueueFrame ==
  ASSUME NEW b, NEW n, NEW L, QueueIs(b, n, L), first' = first, made \in Nat, made' \in Nat, made' >= made,
         \A k \in (b + 1)..n : next'[L[k]] = next[L[k]]
  PROVE  QueueIs(b, n, L)' /\ (Broken(b, n, L)' <=> Broken(b, n, L))
  <1>1. b \in Nat /\ n \in Nat /\ b <= n
    BY DEF QueueIs
  <1>2. \A k \in (b + 1)..n : L[k] \in 0..(made' - 1)
    BY DEF QueueIs
  <1>3. b # n => next'[L[n]] = next[L[n]]
    BY <1>1
  <1>4. \A k \in (b + 1)..(n - 1) : next'[L[k]] = L[k + 1]
    BY <1>1 DEF QueueIs
  <1> QED  BY <1>1, <1>2, <1>3, <1>4 DEF QueueIs, Broken

\* A step that leaves the pool alone.
LEMMA PoolFrame ==
  ASSUME NEW p, NEW P, PoolIs(p, P), free' = free, made \in Nat, made' \in Nat, made' >= made,
         \A i \in 1..p : next'[P[i]] = next[P[i]]
  PROVE  PoolIs(p, P)'
  <1>1. p \in Nat
    BY DEF PoolIs
  <1>2. \A i \in 1..p : P[i] \in 0..(made' - 1)
    BY DEF PoolIs
  <1>3. \A i \in 2..p : next'[P[i]] = P[i - 1]
    BY <1>1 DEF PoolIs
  <1>4. p > 0 => next'[P[1]] = next[P[1]]
    BY <1>1
  <1> QED  BY <1>1, <1>2, <1>3, <1>4 DEF PoolIs

\* Handles stay where they are.
LEMMA PlacedFrame ==
  ASSUME NEW b, NEW n, NEW L, NEW p, NEW P, Placed(b, n, L, p, P), made' = made,
         \A t \in Nodes, h \in Handles : Holds(t, h)' <=> Holds(t, h)
  PROVE  Placed(b, n, L, p, P)'
  BY DEF Placed, InQueue, InPool

\* A step of the root that no reader notices.
LEMMA ReadersFrame ==
  ASSUME NEW b, NEW n, NEW L, \A t \in Readers : ReaderIs(b, n, L, t), Retiring(b, n), out' = out,
         \A t \in Readers : pc'[t] = pc[t] /\ item'[t] = item[t] /\ key'[t] = key[t],
         Broken(b, n, L) => Broken(b, n, L)'
  PROVE  /\ \A t \in Readers : ReaderIs(b, n, L, t)'
         /\ Retiring(b, n)' /\ Sent' = Sent
         /\ \A t \in Readers : Left(t)' = Left(t)
         /\ \A k \in Nat : Gone(k)' = Gone(k)
  <1>1. Sent' = Sent
    BY DEF Sent
  <1>2. \A t \in Readers : Left(t)' = Left(t)
    BY DEF Left
  <1>3. \A k \in Nat : Gone(k)' = Gone(k)
    BY <1>2 DEF Gone
  <1>4. Retiring(b, n)'
    BY <1>2 DEF Retiring
  <1>5. ASSUME NEW t \in Readers PROVE ReaderIs(b, n, L, t)'
    <2>1. ReaderIs(b, n, L, t)
      OBVIOUS
    <2>2. pc'[t] = pc[t] /\ item'[t] = item[t] /\ key'[t] = key[t] /\ out'[t] = out[t] /\ Left(t)' = Left(t)
      BY <1>2
    <2>3. pc[t] = "retire" => \A u \in Readers : b < Left(u)' /\ (u # t => pc'[u] # "retire")
      BY <2>1, <1>2 DEF ReaderIs
    <2> QED  BY <2>1, <2>2, <2>3, <1>1 DEF ReaderIs
  <1> QED  BY <1>1, <1>2, <1>3, <1>4, <1>5

\* The items stay as they are.
LEMMA ItemsFrame ==
  ASSUME NEW b, NEW n, NEW L, b \in Nat, n \in Nat, ItemsAre(b, n, L), out'[Root] = out[Root],
         \A k \in Nat : Gone(k)' = Gone(k),
         \A k \in (b + 1)..n : avail'[L[k]] = avail[L[k]],
         \A k \in (b + 1)..n : k <= Sent => data'[L[k]] = data[L[k]]
  PROVE  ItemsAre(b, n, L)'
  <1>1. Sent' = Sent
    BY DEF Sent
  <1>2. \A k \in (b + 1)..n : Gone(k)' = Gone(k)
    OBVIOUS
  <1> QED  BY <1>1, <1>2 DEF ItemsAre

\* A step of the root inside tmpi_bch_alloc that changes neither the queue nor the pool.
LEMMA RootMoves ==
  ASSUME TypeOK, NEW b, NEW n, NEW L, NEW p, NEW P, InvFor(b, n, L, p, P),
         UNCHANGED <<avail, data, first, free, made, key, out>>,
         \A t \in Readers : pc'[t] = pc[t] /\ item'[t] = item[t],
         \A h \in Handles : next'[h] = next[h] \/ Holds(Root, h),
         \A h \in Handles : Holds(Root, h)' <=> Holds(Root, h),
         pc[Root] \in RootPlaces, pc'[Root] \in RootPlaces,
         RootIs(b, n, L)', AllocIs(p, P)'
  PROVE  InvFor(b, n, L, p, P)'
  <1>1. /\ QueueIs(b, n, L) /\ PoolIs(p, P) /\ Placed(b, n, L, p, P) /\ ItemsAre(b, n, L)
        /\ \A t \in Readers : ReaderIs(b, n, L, t)
        /\ Retiring(b, n)
    BY DEF InvFor
  <1>2. made \in Nat /\ made <= MaxHandles /\ made' = made /\ b \in Nat /\ n \in Nat /\ p \in Nat
    BY <1>1, NumbersAre DEF QueueIs, PoolIs
  <1>3. \A k \in (b + 1)..n : L[k] \in Handles /\ InQueue(b, n, L, L[k])
    BY <1>1, <1>2, GroupIs DEF QueueIs, Handles, InQueue
  <1>4. \A i \in 1..p : P[i] \in Handles /\ InPool(p, P, P[i])
    BY <1>1, <1>2, GroupIs DEF PoolIs, Handles, InPool
  <1>5. \A h \in Handles : Holds(Root, h) => ~InQueue(b, n, L, h) /\ ~InPool(p, P, h)
    BY <1>1, GroupIs DEF Placed
  <1>6. \A k \in (b + 1)..n : next'[L[k]] = next[L[k]]
    BY <1>3, <1>5
  <1>7. \A i \in 1..p : next'[P[i]] = next[P[i]]
    BY <1>4, <1>5
  <1>8. QueueIs(b, n, L)' /\ (Broken(b, n, L)' <=> Broken(b, n, L))
    BY <1>1, <1>2, <1>6, QueueFrame
  <1>9. PoolIs(p, P)'
    BY <1>1, <1>2, <1>7, PoolFrame
  <1>10. /\ \A t \in Readers : ReaderIs(b, n, L, t)'
         /\ Retiring(b, n)' /\ \A k \in Nat : Gone(k)' = Gone(k)
    BY <1>1, <1>8, ReadersFrame
  <1>11. ItemsAre(b, n, L)'
    BY <1>1, <1>2, <1>10, ItemsFrame
  <1>12. \A t \in Nodes, h \in Handles : Holds(t, h)' <=> Holds(t, h)
    <2> SUFFICES ASSUME NEW t \in Nodes, NEW h \in Handles PROVE Holds(t, h)' <=> Holds(t, h)
      OBVIOUS
    <2>1. CASE t = Root
      BY <2>1
    <2>2. CASE t \in Readers
      <3>1. pc[t] \in ReaderPlaces /\ pc'[t] = pc[t] /\ item'[t] = item[t]
        BY <1>1, <2>2 DEF ReaderIs
      <3> QED  BY <3>1 DEF Holds, ReaderPlaces
    <2> QED  BY <2>1, <2>2, GroupIs
  <1>13. Placed(b, n, L, p, P)'
    BY <1>1, <1>2, <1>12, PlacedFrame
  <1> QED  BY <1>8, <1>9, <1>10, <1>11, <1>13 DEF InvFor

----------------------------------------------------------------------------
(* The root allocates a handle. *)

\* The root begins a call: the item it fills is the last of the queue.
LEMMA EnterRootStep ==
  ASSUME BInv, Enter(Root)
  PROVE  BInv'
  <1>1. TypeOK /\ \E b, n, p \in Nat, L, P \in [Nat -> Handles] : InvFor(b, n, L, p, P)
    BY DEF BInv
  <1>2. PICK b, n, p \in Nat, L, P \in [Nat -> Handles] : InvFor(b, n, L, p, P)
    BY <1>1
  <1>3. QueueIs(b, n, L) /\ PoolIs(p, P) /\ RootIs(b, n, L) /\ AllocIs(p, P)
    BY <1>2 DEF InvFor
  <1>4. PICK cur : cur = IF key[Root] = Null THEN first ELSE key[Root]
    OBVIOUS
  <1>5. /\ cur # Bad /\ Sent < Rounds /\ pc[Root] = "out" /\ pc' = [pc EXCEPT ![Root] = "pop"]
        /\ item' = [item EXCEPT ![Root] = cur] /\ new' = free
        /\ UNCHANGED <<next, avail, data, first, free, made, key, link, fails, spurious, out>>
    BY <1>4 DEF Enter, Goto, list, bounds, Sent
  <1>6. Sent \in Nat /\ Root \in Nodes
    BY <1>1, NumbersAre, GroupIs
  <1>7. ~Broken(b, n, L) /\ n = Sent + 1 /\ (key[Root] = L[n] \/ (key[Root] = Null /\ n = 1)) /\ b <= Sent
    <2>1. ~Broken(b, n, L)
      BY <1>3, <1>4, <1>5 DEF RootIs, Null, Bad
    <2> QED  BY <2>1, <1>3, <1>5 DEF RootIs
  <1>8. cur = L[n] /\ cur \in Handles
    <2>1. CASE key[Root] = L[n]
      BY <2>1, <1>4 DEF Handles, Null
    <2>2. CASE key[Root] = Null /\ n = 1
      <3>1. b = 0
        BY <2>2, <1>6, <1>7
      <3>2. first = L[b + 1]
        BY <3>1, <2>2, <1>3 DEF QueueIs
      <3> QED  BY <2>2, <3>1, <3>2, <1>4
    <2> QED  BY <2>1, <2>2, <1>7
  <1>9. TypeOK'
    BY <1>1, <1>5, <1>8 DEF TypeOK, Places, HandleOrNull
  <1>10. pc'[Root] = "pop" /\ item'[Root] = cur /\ \A t \in Readers : pc'[t] = pc[t] /\ item'[t] = item[t]
    BY <1>1, <1>5, GroupIs DEF TypeOK
  <1>11. RootIs(b, n, L)'
    BY <1>5, <1>7, <1>8, <1>10 DEF RootIs, RootPlaces, Broken, Sent
  <1>12. AllocIs(p, P)'
    BY <1>3, <1>5, <1>10 DEF AllocIs, PoolIs, InPool
  <1>13. \A h \in Handles : Holds(Root, h)' <=> Holds(Root, h)
    BY <1>5, <1>10 DEF Holds
  <1>14. InvFor(b, n, L, p, P)'
    BY <1>1, <1>2, <1>5, <1>10, <1>11, <1>12, <1>13, RootMoves DEF RootPlaces
  <1> QED  BY <1>9, <1>14 DEF BInv

\* A step of tmpi_bch_alloc between two of its accesses to the pool.
LEMMA AllocStep ==
  ASSUME BInv, PopNext \/ PopRetry \/ GrowFails \/ SpliceNext \/ SpliceRetry
  PROVE  BInv'
  <1>1. TypeOK /\ \E b, n, p \in Nat, L, P \in [Nat -> Handles] : InvFor(b, n, L, p, P)
    BY DEF BInv
  <1>2. PICK b, n, p \in Nat, L, P \in [Nat -> Handles] : InvFor(b, n, L, p, P)
    BY <1>1
  <1>3. QueueIs(b, n, L) /\ PoolIs(p, P) /\ RootIs(b, n, L) /\ AllocIs(p, P) /\ Placed(b, n, L, p, P)
    BY <1>2 DEF InvFor
  <1>4. /\ made \in Nat /\ made <= MaxHandles /\ Root \in Nodes /\ MaxHandles \in Nat
        /\ group_size \in Nat /\ group_size >= 2
    BY <1>1, NumbersAre, GroupIs
  <1>5. \A i \in 1..p : P[i] \in Handles /\ next[P[i]] \in HandleOrNull
    <2> SUFFICES ASSUME NEW i \in 1..p PROVE P[i] \in Handles /\ next[P[i]] \in HandleOrNull
      OBVIOUS
    <2>1. P[i] \in Handles
      OBVIOUS
    <2>2. CASE i = 1
      BY <2>2, <1>3 DEF PoolIs, HandleOrNull
    <2>3. CASE i # 1
      <3>1. i \in 2..p /\ i - 1 \in Nat
        BY <2>3
      <3>2. next[P[i]] = P[i - 1]
        BY <3>1, <1>3 DEF PoolIs
      <3> QED  BY <3>1, <3>2 DEF HandleOrNull
    <2> QED  BY <2>1, <2>2, <2>3
  <1>6. \A h : InPool(p, P, h) => h \in Handles /\ next[h] \in HandleOrNull
    BY <1>5 DEF InPool
  <1>7. /\ UNCHANGED <<avail, data, first, free, made, key, item, out, spurious>>
        /\ pc[Root] \in {"pop", "cas", "splice", "splice_cas"}
        /\ pc'[Root] \in {"pop", "cas", "splice", "splice_cas", "fill"}
        /\ \A t \in Nodes : t # Root => pc'[t] = pc[t]
        /\ pc' \in [Nodes -> Places]
    <2>1. UNCHANGED <<avail, data, first, free, made, key, item, out, spurious>>
      BY DEF PopNext, PopRetry, GrowFails, SpliceNext, SpliceRetry, list, bounds
    <2>2. pc[Root] \in {"pop", "cas", "splice", "splice_cas"}
      BY DEF PopNext, PopRetry, GrowFails, SpliceNext, SpliceRetry, Goto
    <2>3. PICK l \in {"pop", "cas", "splice", "splice_cas", "fill"} : pc' = [pc EXCEPT ![Root] = l]
      BY DEF PopNext, PopRetry, GrowFails, SpliceNext, SpliceRetry, Goto
    <2>4. pc \in [Nodes -> Places] /\ l \in Places
      BY <1>1 DEF TypeOK, Places
    <2> QED  BY <2>1, <2>2, <2>3, <2>4, <1>4
  <1>8. ~Broken(b, n, L) /\ n = Sent + 1 /\ item[Root] = L[n] /\ b <= Sent /\ Sent < Rounds
    BY <1>3, <1>7 DEF RootIs
  <1>9. CASE PopNext
    <2>1. /\ pc[Root] = "pop" /\ new # Null /\ link' = next[new] /\ pc'[Root] = "cas"
          /\ UNCHANGED <<next, new, fails>>
      BY <1>1, <1>4, <1>9 DEF PopNext, list, bounds, TypeOK
    <2>2. InPool(p, P, new)
      BY <2>1, <1>3 DEF AllocIs
    <2>3. TypeOK'
      BY <1>1, <1>6, <1>7, <2>1, <2>2 DEF TypeOK
    <2>4. AllocIs(p, P)'
      BY <2>1, <2>2 DEF AllocIs, InPool
    <2>5. RootIs(b, n, L)'
      BY <1>7, <1>8, <2>1 DEF RootIs, RootPlaces, Broken, Sent
    <2>6. \A h \in Handles : Holds(Root, h)' <=> Holds(Root, h)
      BY <2>1 DEF Holds
    <2>7. InvFor(b, n, L, p, P)'
      BY <1>1, <1>2, <1>4, <1>7, <2>1, <2>4, <2>5, <2>6, RootMoves, GroupIs DEF RootPlaces
    <2> QED  BY <2>3, <2>7 DEF BInv
  <1>10. CASE PopRetry
    <2>1. pc[Root] = "cas" /\ new' = free /\ pc'[Root] = "pop" /\ UNCHANGED <<next, link, fails>>
      BY <1>1, <1>4, <1>10 DEF PopRetry, Goto, list, bounds, TypeOK
    <2>2. new' = Null \/ InPool(p, P, new')
      BY <2>1, <1>3 DEF PoolIs, InPool
    <2>3. TypeOK'
      BY <1>1, <1>7, <2>1 DEF TypeOK
    <2>4. AllocIs(p, P)'
      BY <2>1, <2>2 DEF AllocIs, InPool
    <2>5. RootIs(b, n, L)'
      BY <1>7, <1>8, <2>1 DEF RootIs, RootPlaces, Broken, Sent
    <2>6. \A h \in Handles : Holds(Root, h)' <=> Holds(Root, h)
      BY <2>1 DEF Holds
    <2>7. InvFor(b, n, L, p, P)'
      BY <1>1, <1>2, <1>4, <1>7, <2>1, <2>4, <2>5, <2>6, RootMoves, GroupIs DEF RootPlaces
    <2> QED  BY <2>3, <2>7 DEF BInv
  <1>11. CASE GrowFails
    <2>1. /\ pc[Root] = "pop" /\ new' = Bad /\ pc'[Root] = "fill" /\ UNCHANGED <<next, link>>
          /\ fails < MaxFails /\ fails' = fails + 1
      BY <1>1, <1>4, <1>11 DEF GrowFails, list, bounds, TypeOK
    <2>2. fails' \in 0..MaxFails
      BY <1>1, <2>1, BoundsAssumption DEF TypeOK
    <2>3. TypeOK'
      BY <1>1, <1>7, <2>1, <2>2 DEF TypeOK
    <2>4. AllocIs(p, P)'
      BY <2>1 DEF AllocIs, InPool
    <2>5. RootIs(b, n, L)'
      BY <1>7, <1>8, <2>1 DEF RootIs, RootPlaces, Broken, Sent
    <2>6. \A h \in Handles : Holds(Root, h)' <=> Holds(Root, h)
      BY <2>1 DEF Holds, Handles, Bad
    <2>7. InvFor(b, n, L, p, P)'
      BY <1>1, <1>2, <1>4, <1>7, <2>1, <2>4, <2>5, <2>6, RootMoves, GroupIs DEF RootPlaces
    <2> QED  BY <2>3, <2>7 DEF BInv
  <1>12. CASE SpliceRetry
    <2>1. pc[Root] = "splice_cas" /\ pc'[Root] = "splice" /\ UNCHANGED <<next, new, link, fails>>
      BY <1>1, <1>4, <1>12 DEF SpliceRetry, Goto, list, bounds, TypeOK
    <2>3. TypeOK'
      BY <1>1, <1>7, <2>1 DEF TypeOK
    <2>4. AllocIs(p, P)'
      BY <2>1, <1>3, <1>7 DEF AllocIs, InPool
    <2>5. RootIs(b, n, L)'
      BY <1>7, <1>8, <2>1 DEF RootIs, RootPlaces, Broken, Sent
    <2>6. \A h \in Handles : Holds(Root, h)' <=> Holds(Root, h)
      BY <2>1, <1>7 DEF Holds
    <2>7. InvFor(b, n, L, p, P)'
      BY <1>1, <1>2, <1>4, <1>7, <2>1, <2>4, <2>5, <2>6, RootMoves, GroupIs DEF RootPlaces
    <2> QED  BY <2>3, <2>7 DEF BInv
  <1>13. CASE SpliceNext
    <2>1. /\ pc[Root] = "splice" /\ pc'[Root] = "splice_cas" /\ UNCHANGED <<new, link, fails>>
          /\ next' = [next EXCEPT ![new + group_size - 1] = free]
      BY <1>1, <1>4, <1>13 DEF SpliceNext, Goto, bounds, TypeOK
    <2>2. /\ new \in Nat /\ new + group_size = made
          /\ \A h \in Handles : new < h /\ h < new + group_size - 1 => next[h] = h + 1
      BY <2>1, <1>3 DEF AllocIs
    <2>3. PICK e : e = new + group_size - 1
      OBVIOUS
    <2>4. e \in Handles /\ new <= e /\ e < new + group_size
      BY <2>2, <2>3, <1>4 DEF Handles
    <2>5. next' \in [Handles -> HandleOrNull \cup {Bad}] /\ \A h \in Handles : h # e => next'[h] = next[h]
      BY <1>1, <2>1, <2>3, <2>4 DEF TypeOK
    <2>6. TypeOK'
      BY <1>1, <1>7, <2>1, <2>5 DEF TypeOK
    <2>7. AllocIs(p, P)'
      <3>1. \A h \in Handles : new < h /\ h < new + group_size - 1 => next'[h] = h + 1
        BY <2>2, <2>3, <2>5
      <3> QED  BY <3>1, <2>1, <2>2, <1>7 DEF AllocIs
    <2>8. next'[L[n]] = next[L[n]]
      <3>1. InQueue(b, n, L, L[n])
        BY <1>3, <1>8 DEF InQueue, QueueIs, Broken
      <3>2. Holds(Root, e)
        BY <2>1, <2>4 DEF Holds
      <3>3. L[n] # e
        BY <3>1, <3>2, <2>4, <1>3, <1>4 DEF Placed
      <3> QED  BY <3>3, <2>5
    <2>9. RootIs(b, n, L)'
      BY <1>7, <1>8, <2>1, <2>8 DEF RootIs, RootPlaces, Broken, Sent
    <2>10. \A h \in Handles : Holds(Root, h)' <=> Holds(Root, h)
      BY <2>1, <1>7 DEF Holds
    <2>11. \A h \in Handles : next'[h] = next[h] \/ Holds(Root, h)
      BY <2>1, <2>4, <2>5 DEF Holds
    <2>12. InvFor(b, n, L, p, P)'
      BY <1>1, <1>2, <1>4, <1>7, <2>1, <2>7, <2>9, <2>10, <2>11, RootMoves, GroupIs DEF RootPlaces
    <2> QED  BY <2>6, <2>12 DEF BInv
  <1> QED  BY <1>9, <1>10, <1>11, <1>12, <1>13

\* A step of the root that changes the pool, of which R is to be the new contents.
LEMMA RootTakes ==
  ASSUME TypeOK, NEW b, NEW n, NEW L, NEW p, NEW P, InvFor(b, n, L, p, P), NEW q, NEW R,
         UNCHANGED <<avail, data, first, key, item, out>>, made' \in Nat, made' >= made,
         \A t \in Readers : pc'[t] = pc[t],
         \A h \in Handles : InQueue(b, n, L, h) => next'[h] = next[h],
         pc[Root] \in RootPlaces \ {"out", "publish"}, pc'[Root] \in RootPlaces \ {"out", "publish"},
         PoolIs(q, R)', AllocIs(q, R)', Placed(b, n, L, q, R)'
  PROVE  InvFor(b, n, L, q, R)'
  <1>1. /\ QueueIs(b, n, L) /\ ItemsAre(b, n, L) /\ RootIs(b, n, L)
        /\ \A t \in Readers : ReaderIs(b, n, L, t)
        /\ Retiring(b, n)
    BY DEF InvFor
  <1>2. made \in Nat /\ made <= MaxHandles /\ b \in Nat /\ n \in Nat
    BY <1>1, NumbersAre DEF QueueIs
  <1>3. \A k \in (b + 1)..n : L[k] \in Handles /\ InQueue(b, n, L, L[k])
    BY <1>1, <1>2, GroupIs DEF QueueIs, Handles, InQueue
  <1>4. \A k \in (b + 1)..n : next'[L[k]] = next[L[k]]
    BY <1>3
  <1>5. QueueIs(b, n, L)' /\ (Broken(b, n, L)' <=> Broken(b, n, L))
    BY <1>1, <1>2, <1>4, QueueFrame
  <1>6. /\ \A t \in Readers : ReaderIs(b, n, L, t)'
        /\ Retiring(b, n)' /\ Sent' = Sent /\ \A k \in Nat : Gone(k)' = Gone(k)
    BY <1>1, <1>5, ReadersFrame
  <1>7. ItemsAre(b, n, L)'
    BY <1>1, <1>2, <1>6, ItemsFrame
  <1>8. RootIs(b, n, L)'
    BY <1>1, <1>5, <1>6 DEF RootIs
  <1> QED  BY <1>5, <1>6, <1>7, <1>8 DEF InvFor

\* The root takes the handle on top of the pool.  It is the one it read, whose next one is
\* still the one it read, although others may have put handles on top in between.
LEMMA PopCasStep ==
  ASSUME BInv, PopCas
  PROVE  BInv'
  <1>1. TypeOK /\ \E b, n, p \in Nat, L, P \in [Nat -> Handles] : InvFor(b, n, L, p, P)
    BY DEF BInv
  <1>2. PICK b, n, p \in Nat, L, P \in [Nat -> Handles] : InvFor(b, n, L, p, P)
    BY <1>1
  <1>3. /\ QueueIs(b, n, L) /\ PoolIs(p, P) /\ AllocIs(p, P) /\ Placed(b, n, L, p, P)
        /\ \A t \in Readers : ReaderIs(b, n, L, t)
    BY <1>2 DEF InvFor
  <1>4. /\ made \in Nat /\ made <= MaxHandles /\ Root \in Nodes /\ MaxHandles \in Nat
    BY <1>1, NumbersAre, GroupIs
  <1>5. /\ pc[Root] = "cas" /\ pc' = [pc EXCEPT ![Root] = "fill"] /\ free = new /\ free' = link
        /\ UNCHANGED <<next, avail, data, first, made, key, item, new, link, fails, spurious, out>>
    BY DEF PopCas, Goto, list, bounds
  <1>6. pc'[Root] = "fill" /\ (\A t \in Readers : pc'[t] = pc[t]) /\ pc' \in [Nodes -> Places]
    BY <1>1, <1>5, GroupIs DEF TypeOK, Places
  <1>7. InPool(p, P, new) /\ link = next[new]
    BY <1>3, <1>5 DEF AllocIs
  <1>8. p > 0 /\ new = P[p] /\ new \in 0..(made - 1)
    BY <1>3, <1>5, <1>7 DEF PoolIs, InPool
  <1>9. PICK q \in Nat : q = p - 1
    BY <1>8
  <1>10. link \in HandleOrNull /\ (q > 0 => link = P[q]) /\ (q = 0 => link = Null)
    <2>1. CASE q = 0
      BY <2>1, <1>3, <1>7, <1>8, <1>9 DEF PoolIs, HandleOrNull
    <2>2. CASE q > 0
      <3>1. p \in 2..p
        BY <2>2, <1>9
      <3>2. next[P[p]] = P[p - 1]
        BY <3>1, <1>3 DEF PoolIs
      <3> QED  BY <3>2, <2>2, <1>7, <1>8, <1>9 DEF HandleOrNull
    <2> QED  BY <2>1, <2>2
  <1>11. TypeOK'
    BY <1>1, <1>5, <1>6, <1>10 DEF TypeOK
  <1>12. PoolIs(q, P)'
    BY <1>3, <1>5, <1>8, <1>9, <1>10 DEF PoolIs
  <1>13. AllocIs(q, P)'
    BY <1>5, <1>6, <1>8 DEF AllocIs
  <1>14. \A h \in Handles : InPool(p, P, h) <=> InPool(q, P, h) \/ h = new
    BY <1>8, <1>9 DEF InPool
  <1>15. ~InPool(q, P, new)
    BY <1>3, <1>8, <1>9 DEF InPool, PoolIs
  <1>16. \A h \in Handles : ~Holds(Root, h) /\ (Holds(Root, h)' <=> h = new)
    BY <1>5, <1>6 DEF Holds
  <1>17. \A t \in Readers, h \in Handles : Holds(t, h)' <=> Holds(t, h)
    <2> SUFFICES ASSUME NEW t \in Readers, NEW h \in Handles PROVE Holds(t, h)' <=> Holds(t, h)
      OBVIOUS
    <2>1. pc[t] \in ReaderPlaces /\ pc'[t] = pc[t] /\ item'[t] = item[t]
      BY <1>3, <1>5, <1>6 DEF ReaderIs
    <2> QED  BY <2>1 DEF Holds, ReaderPlaces
  <1>18. Placed(b, n, L, q, P)'
    <2> SUFFICES ASSUME NEW h \in Handles
                 PROVE  /\ h < made <=> InQueue(b, n, L, h) \/ InPool(q, P, h) \/ \E t \in Nodes : Holds(t, h)'
                        /\ ~(InQueue(b, n, L, h) /\ InPool(q, P, h))
                        /\ \A t \in Nodes : Holds(t, h)' =>
                             /\ ~InQueue(b, n, L, h) /\ ~InPool(q, P, h)
                             /\ \A u \in Nodes : u # t => ~Holds(u, h)'
      BY <1>5 DEF Placed, InQueue, InPool
    <2>1. /\ h < made <=> InQueue(b, n, L, h) \/ InPool(p, P, h) \/ \E t \in Nodes : Holds(t, h)
          /\ ~(InQueue(b, n, L, h) /\ InPool(p, P, h))
          /\ \A t \in Nodes : Holds(t, h) =>
               /\ ~InQueue(b, n, L, h) /\ ~InPool(p, P, h)
               /\ \A u \in Nodes : u # t => ~Holds(u, h)
      BY <1>3 DEF Placed
    <2>2. \A t \in Nodes : Holds(t, h)' <=> (Holds(t, h) \/ (t = Root /\ h = new))
      BY <1>16, <1>17, GroupIs
    <2> QED  BY <2>1, <2>2, <1>4, <1>14, <1>15
  <1>19. InvFor(b, n, L, q, P)'
    BY <1>1, <1>2, <1>4, <1>5, <1>6, <1>12, <1>13, <1>18, RootTakes DEF RootPlaces
  <1> QED  BY <1>11, <1>19 DEF BInv

\* The root makes a chunk of new handles.
LEMMA GrowStep ==
  ASSUME BInv, Grow
  PROVE  BInv'
  <1>1. TypeOK /\ \E b, n, p \in Nat, L, P \in [Nat -> Handles] : InvFor(b, n, L, p, P)
    BY DEF BInv
  <1>2. PICK b, n, p \in Nat, L, P \in [Nat -> Handles] : InvFor(b, n, L, p, P)
    BY <1>1
  <1>3. /\ QueueIs(b, n, L) /\ PoolIs(p, P) /\ AllocIs(p, P) /\ Placed(b, n, L, p, P)
        /\ \A t \in Readers : ReaderIs(b, n, L, t)
    BY <1>2 DEF InvFor
  <1>4. /\ made \in Nat /\ made <= MaxHandles /\ Root \in Nodes /\ MaxHandles \in Nat
        /\ group_size \in Nat /\ group_size >= 2
    BY <1>1, NumbersAre, GroupIs
  <1>5. /\ pc[Root] = "pop" /\ new' = made /\ made' = made + group_size /\ made' <= MaxHandles
        /\ next' = [h \in Handles |-> IF h > made /\ h < made + group_size - 1 THEN h + 1 ELSE next[h]]
        /\ pc' = [pc EXCEPT ![Root] = "splice"]
        /\ UNCHANGED <<avail, data, first, free, key, item, link, fails, spurious, out>>
    BY DEF Grow, bounds
  <1>6. pc'[Root] = "splice" /\ (\A t \in Readers : pc'[t] = pc[t]) /\ pc' \in [Nodes -> Places]
    BY <1>1, <1>5, GroupIs DEF TypeOK, Places
  <1>7. next' \in [Handles -> HandleOrNull \cup {Bad}] /\ \A h \in Handles : h < made => next'[h] = next[h]
    <2>1. \A h \in Handles : h > made /\ h < made + group_size - 1 => h + 1 \in Handles
      BY <1>4, <1>5 DEF Handles
    <2>2. \A h \in Handles : next[h] \in HandleOrNull \cup {Bad}
      BY <1>1 DEF TypeOK
    <2>3. \A h \in Handles : h \in Int /\ (h < made => ~(h > made))
      BY <1>4 DEF Handles
    <2> QED  BY <1>5, <2>1, <2>2, <2>3 DEF HandleOrNull
  <1>8. made' \in Nat /\ made' >= made /\ made \in Handles /\ made' \in (group_size + 1)..MaxHandles
    BY <1>1, <1>4, <1>5 DEF Handles, TypeOK
  <1>9. TypeOK'
    BY <1>1, <1>5, <1>6, <1>7, <1>8 DEF TypeOK, HandleOrNull
  <1>10. \A i \in 1..p : P[i] \in Handles /\ P[i] < made
    BY <1>3, <1>4 DEF PoolIs
  <1>11. PoolIs(p, P)'
    BY <1>3, <1>4, <1>5, <1>7, <1>8, <1>10, PoolFrame
  <1>12. \A h \in Handles : new' < h /\ h < new' + group_size - 1 => next'[h] = h + 1
    BY <1>4, <1>5 DEF Handles
  <1>13. AllocIs(p, P)'
    BY <1>4, <1>5, <1>6, <1>12 DEF AllocIs
  <1>14. \A h \in Handles : ~Holds(Root, h) /\ (Holds(Root, h)' <=> made <= h /\ h < made + group_size)
    BY <1>5, <1>6 DEF Holds
  <1>15. \A t \in Readers, h \in Handles : Holds(t, h)' <=> Holds(t, h)
    <2> SUFFICES ASSUME NEW t \in Readers, NEW h \in Handles PROVE Holds(t, h)' <=> Holds(t, h)
      OBVIOUS
    <2>1. pc[t] \in ReaderPlaces /\ pc'[t] = pc[t] /\ item'[t] = item[t]
      BY <1>3, <1>5, <1>6 DEF ReaderIs
    <2> QED  BY <2>1 DEF Holds, ReaderPlaces
  <1>16. Placed(b, n, L, p, P)'
    <2> SUFFICES ASSUME NEW h \in Handles
                 PROVE  /\ h < made' <=> InQueue(b, n, L, h) \/ InPool(p, P, h) \/ \E t \in Nodes : Holds(t, h)'
                        /\ ~(InQueue(b, n, L, h) /\ InPool(p, P, h))
                        /\ \A t \in Nodes : Holds(t, h)' =>
                             /\ ~InQueue(b, n, L, h) /\ ~InPool(p, P, h)
                             /\ \A u \in Nodes : u # t => ~Holds(u, h)'
      BY DEF Placed, InQueue, InPool
    <2>1. /\ h < made <=> InQueue(b, n, L, h) \/ InPool(p, P, h) \/ \E t \in Nodes : Holds(t, h)
          /\ ~(InQueue(b, n, L, h) /\ InPool(p, P, h))
          /\ \A t \in Nodes : Holds(t, h) =>
               /\ ~InQueue(b, n, L, h) /\ ~InPool(p, P, h)
               /\ \A u \in Nodes : u # t => ~Holds(u, h)
      BY <1>3 DEF Placed
    <2>2. \A t \in Nodes : Holds(t, h)' <=> (Holds(t, h) \/ (t = Root /\ made <= h /\ h < made'))
      BY <1>5, <1>14, <1>15, GroupIs
    <2>3. h \in Nat /\ (h < made' <=> h < made \/ (made <= h /\ h < made')) /\ ~(h < made /\ made <= h)
      BY <1>4, <1>8 DEF Handles
    <2> QED  BY <2>1, <2>2, <2>3, <1>4
  <1>17. \A h \in Handles : InQueue(b, n, L, h) => next'[h] = next[h]
    BY <1>3, <1>4, <1>7 DEF InQueue, QueueIs
  <1>18. InvFor(b, n, L, p, P)'
    BY <1>1, <1>2, <1>5, <1>6, <1>8, <1>11, <1>13, <1>16, <1>17, RootTakes DEF RootPlaces
  <1> QED  BY <1>9, <1>18 DEF BInv

\* The root puts all but the first of the new handles on top of the pool.
LEMMA SpliceCasStep ==
  ASSUME BInv, SpliceCas
  PROVE  BInv'
  <1>1. TypeOK /\ \E b, n, p \in Nat, L, P \in [Nat -> Handles] : InvFor(b, n, L, p, P)
    BY DEF BInv
  <1>2. PICK b, n, p \in Nat, L, P \in [Nat -> Handles] : InvFor(b, n, L, p, P)
    BY <1>1
  <1>3. /\ QueueIs(b, n, L) /\ PoolIs(p, P) /\ AllocIs(p, P) /\ Placed(b, n, L, p, P)
        /\ \A t \in Readers : ReaderIs(b, n, L, t)
    BY <1>2 DEF InvFor
  <1>4. /\ made \in Nat /\ made <= MaxHandles /\ Root \in Nodes /\ MaxHandles \in Nat
        /\ group_size \in Nat /\ group_size >= 2
    BY <1>1, NumbersAre, GroupIs
  <1>5. PICK w, g, f : w = new /\ g = group_size /\ f = free
    OBVIOUS
  <1>6. /\ pc[Root] = "splice_cas" /\ pc' = [pc EXCEPT ![Root] = "fill"]
        /\ f = next[w + g - 1] /\ free' = w + 1
        /\ UNCHANGED <<next, avail, data, first, made, key, item, new, link, fails, spurious, out>>
    BY <1>5 DEF SpliceCas, Goto, list, bounds
  <1>7. pc'[Root] = "fill" /\ (\A t \in Readers : pc'[t] = pc[t]) /\ pc' \in [Nodes -> Places]
    BY <1>1, <1>6, GroupIs DEF TypeOK, Places
  <1>8. /\ w \in Nat /\ g \in Nat /\ g >= 2 /\ w + g = made /\ w + g <= MaxHandles
        /\ \A h \in Handles : w < h /\ h < w + g - 1 => next[h] = h + 1
    BY <1>3, <1>4, <1>5, <1>6 DEF AllocIs
  <1>9. PICK q \in Nat : q = p + g - 1
    BY <1>8
  <1>10. PICK R : R = [i \in Nat |-> IF p < i /\ i <= q THEN w + g + p - i ELSE P[i]]
    OBVIOUS
  <1>11. /\ \A i \in Nat : i <= p => R[i] = P[i]
         /\ \A i \in Nat : p < i /\ i <= q => R[i] = w + g + p - i /\ w < R[i] /\ R[i] < w + g
    BY <1>8, <1>9, <1>10
  <1>12. R \in [Nat -> Handles]
    <2>1. \A i \in Nat : p < i /\ i <= q => w + g + p - i \in Handles
      BY <1>4, <1>8, <1>9 DEF Handles
    <2> QED  BY <2>1, <1>10
  <1>13. TypeOK'
    <2>1. w + 1 \in HandleOrNull
      BY <1>4, <1>8 DEF HandleOrNull, Handles
    <2> QED  BY <2>1, <1>1, <1>6, <1>7 DEF TypeOK
  <1>14. \A h \in Handles : /\ Holds(Root, h) <=> w <= h /\ h < w + g
                            /\ Holds(Root, h)' <=> h = w
    BY <1>5, <1>6, <1>7 DEF Holds
  <1>15. \A h \in Handles : InPool(p, P, h) => ~(w <= h /\ h < w + g)
    BY <1>3, <1>4, <1>14 DEF Placed
  <1>16. \A i \in 1..p : P[i] \in Handles /\ InPool(p, P, P[i]) /\ R[i] = P[i]
    BY <1>11 DEF InPool
  <1>17. \A i \in 1..q : i \in Nat /\ (i <= p \/ (p < i /\ i <= q))
    OBVIOUS
  <1>18. PoolIs(q, R)'
    <2>1. \A i \in 1..q : R[i] \in 0..(made - 1)
      <3> SUFFICES ASSUME NEW i \in 1..q PROVE R[i] \in 0..(made - 1)
        OBVIOUS
      <3>1. CASE i <= p
        <4>1. i \in 1..p
          BY <3>1
        <4> QED  BY <4>1, <1>16, <1>3 DEF PoolIs
      <3>2. CASE p < i /\ i <= q
        <4>1. R[i] = w + g + p - i
          BY <3>2, <1>11, <1>17
        <4> QED  BY <4>1, <3>2, <1>8, <1>9
      <3> QED  BY <3>1, <3>2, <1>17
    <2>2. ASSUME NEW i \in 1..q, NEW j \in 1..q, R[i] = R[j] PROVE i = j
      <3>1. CASE i <= p /\ j <= p
        <4>1. i \in 1..p /\ j \in 1..p
          BY <3>1
        <4> QED  BY <4>1, <1>16, <1>3, <2>2 DEF PoolIs
      <3>2. CASE p < i /\ p < j
        <4>1. R[i] = w + g + p - i /\ R[j] = w + g + p - j
          BY <3>2, <1>11, <1>17
        <4> QED  BY <4>1, <2>2, <1>8
      <3>3. ASSUME NEW c \in 1..q, NEW d \in 1..q, c <= p, p < d, R[c] = R[d] PROVE FALSE
        <4>1. c \in 1..p
          BY <3>3
        <4>2. ~(w <= R[c] /\ R[c] < w + g)
          BY <4>1, <1>15, <1>16
        <4>3. w < R[d] /\ R[d] < w + g /\ R[d] = w + g + p - d
          BY <3>3, <1>11, <1>17
        <4> QED  BY <4>2, <4>3, <3>3, <1>8
      <3> QED  BY <3>1, <3>2, <3>3, <1>17, <2>2
    <2>3. ASSUME NEW i \in 2..q PROVE next[R[i]] = R[i - 1]
      <3>1. CASE i <= p
        <4>1. i \in 2..p /\ i \in 1..p /\ i - 1 \in 1..p
          BY <3>1
        <4>2. next[P[i]] = P[i - 1]
          BY <4>1, <1>3 DEF PoolIs
        <4> QED  BY <4>1, <4>2, <1>16
      <3>2. CASE i = p + 1
        <4>1. R[i] = w + g - 1 /\ p > 0 /\ p \in 1..p
          BY <3>2, <1>8, <1>9, <1>11
        <4>2. next[R[i]] = P[p]
          BY <4>1, <1>3, <1>5, <1>6 DEF PoolIs
        <4> QED  BY <4>1, <4>2, <3>2, <1>16
      <3>3. CASE i > p + 1
        <4>1. PICK h : h = R[i]
          OBVIOUS
        <4>2. i \in Nat /\ i - 1 \in Nat /\ p < i /\ i <= q /\ p < i - 1 /\ i - 1 <= q
          BY <3>3
        <4>3. h = w + g + p - i /\ R[i - 1] = w + g + p - (i - 1) /\ w < h
          BY <4>1, <4>2, <1>11
        <4>4. h \in Handles /\ h < w + g - 1 /\ R[i - 1] = h + 1
          BY <4>2, <4>3, <3>3, <1>4, <1>8 DEF Handles
        <4>5. next[h] = h + 1
          BY <4>3, <4>4, <1>8
        <4> QED  BY <4>1, <4>4, <4>5
      <3> QED  BY <3>1, <3>2, <3>3
    <2>4. q > 0 /\ free' = R[q] /\ next[R[1]] = Null
      <3>1. q > 0 /\ p < q
        BY <1>8, <1>9
      <3>2. R[q] = w + 1
        BY <3>1, <1>8, <1>9, <1>11
      <3>3. CASE p > 0
        <4>1. R[1] = P[1]
          BY <3>3, <1>11
        <4> QED  BY <4>1, <3>1, <3>2, <3>3, <1>3, <1>6 DEF PoolIs
      <3>4. CASE p = 0
        <4>1. R[1] = w + g - 1
          BY <3>1, <3>4, <1>8, <1>11
        <4> QED  BY <4>1, <3>1, <3>2, <3>4, <1>3, <1>5, <1>6 DEF PoolIs
      <3> QED  BY <3>3, <3>4
    <2> QED  BY <2>1, <2>2, <2>3, <2>4, <1>6 DEF PoolIs
  <1>19. AllocIs(q, R)'
    BY <1>5, <1>6, <1>7, <1>8 DEF AllocIs
  <1>20. \A h \in Handles : InPool(q, R, h) <=> InPool(p, P, h) \/ (w < h /\ h < w + g)
    <2> SUFFICES ASSUME NEW h \in Handles
                 PROVE  InPool(q, R, h) <=> InPool(p, P, h) \/ (w < h /\ h < w + g)
      OBVIOUS
    <2>1. ASSUME InPool(q, R, h) PROVE InPool(p, P, h) \/ (w < h /\ h < w + g)
      <3>1. PICK i \in 1..q : R[i] = h
        BY <2>1 DEF InPool
      <3>2. CASE i <= p
        <4>1. i \in 1..p
          BY <3>2
        <4> QED  BY <4>1, <3>1, <1>16
      <3>3. CASE p < i
        BY <3>1, <3>3, <1>11, <1>17
      <3> QED  BY <3>2, <3>3, <1>17
    <2>2. ASSUME InPool(p, P, h) PROVE InPool(q, R, h)
      <3>1. PICK i \in 1..p : P[i] = h
        BY <2>2 DEF InPool
      <3>2. i \in 1..q /\ R[i] = h
        BY <3>1, <1>8, <1>9, <1>16
      <3> QED  BY <3>2 DEF InPool
    <2>3. ASSUME w < h, h < w + g PROVE InPool(q, R, h)
      <3>1. PICK i : i = w + g + p - h
        OBVIOUS
      <3>2. i \in Nat /\ p < i /\ i <= q /\ w + g + p - i = h
        BY <3>1, <2>3, <1>8, <1>9 DEF Handles
      <3>3. i \in 1..q /\ R[i] = h
        BY <3>2, <1>11
      <3> QED  BY <3>3 DEF InPool
    <2> QED  BY <2>1, <2>2, <2>3
  <1>21. \A t \in Readers, h \in Handles : Holds(t, h)' <=> Holds(t, h)
    <2> SUFFICES ASSUME NEW t \in Readers, NEW h \in Handles PROVE Holds(t, h)' <=> Holds(t, h)
      OBVIOUS
    <2>1. pc[t] \in ReaderPlaces /\ pc'[t] = pc[t] /\ item'[t] = item[t]
      BY <1>3, <1>6, <1>7 DEF ReaderIs
    <2> QED  BY <2>1 DEF Holds, ReaderPlaces
  <1>22. Placed(b, n, L, q, R)'
    <2> SUFFICES ASSUME NEW h \in Handles
                 PROVE  /\ h < made <=> InQueue(b, n, L, h) \/ InPool(q, R, h) \/ \E t \in Nodes : Holds(t, h)'
                        /\ ~(InQueue(b, n, L, h) /\ InPool(q, R, h))
                        /\ \A t \in Nodes : Holds(t, h)' =>
                             /\ ~InQueue(b, n, L, h) /\ ~InPool(q, R, h)
                             /\ \A u \in Nodes : u # t => ~Holds(u, h)'
      BY <1>6 DEF Placed, InQueue, InPool
    <2>1. /\ h < made <=> InQueue(b, n, L, h) \/ InPool(p, P, h) \/ \E t \in Nodes : Holds(t, h)
          /\ ~(InQueue(b, n, L, h) /\ InPool(p, P, h))
          /\ \A t \in Nodes : Holds(t, h) =>
               /\ ~InQueue(b, n, L, h) /\ ~InPool(p, P, h)
               /\ \A u \in Nodes : u # t => ~Holds(u, h)
      BY <1>3 DEF Placed
    <2>2. /\ Holds(Root, h) <=> w <= h /\ h < w + g
          /\ Holds(Root, h)' <=> h = w
          /\ \A t \in Readers : Holds(t, h)' <=> Holds(t, h)
      BY <1>14, <1>21
    <2>3. InPool(q, R, h) <=> InPool(p, P, h) \/ (w < h /\ h < w + g)
      BY <1>20
    <2>4. (w <= h /\ h < w + g) <=> (h = w \/ (w < h /\ h < w + g))
      BY <1>8 DEF Handles
    <2>5. ~(h = w /\ w < h)
      BY <1>8
    <2>6. Root \in Nodes /\ Root \notin Readers /\ Readers \subseteq Nodes /\ \A t \in Nodes : t = Root \/ t \in Readers
      BY GroupIs
    <2> HIDE DEF Holds, InQueue, InPool
    <2>7. CASE Holds(Root, h)
      BY <2>1, <2>2, <2>3, <2>4, <2>5, <2>6, <2>7
    <2>8. CASE ~Holds(Root, h)
      BY <2>1, <2>2, <2>3, <2>4, <2>5, <2>6, <2>8
    <2> QED  BY <2>7, <2>8
  <1>23. InvFor(b, n, L, q, R)'
    BY <1>1, <1>2, <1>4, <1>6, <1>7, <1>18, <1>19, <1>22, RootTakes DEF RootPlaces
  <1> QED  BY <1>12, <1>13, <1>23 DEF BInv

----------------------------------------------------------------------------
(* The root uses the handle. *)

\* A step of the root that the readers do not notice, except that it wakes some of them: the
\* queue may grow at its end, and broadcasts may be completed.
LEMMA ReadersKeep ==
  ASSUME TypeOK, TypeOK', NEW b \in Nat, NEW n \in Nat, NEW L, NEW m \in Nat, NEW M,
         m >= n, b < n \/ m = n, m = n \/ n > Sent, \A k \in 1..n : M[k] = L[k],
         \A t \in Readers : ReaderIs(b, n, L, t), Retiring(b, n), Sent' >= Sent,
         \A t \in Readers : item'[t] = item[t] /\ key'[t] = key[t] /\ out'[t] = out[t],
         \A t \in Readers : pc'[t] = pc[t] \/ (pc[t] = "sleep" /\ pc'[t] = "lock"),
         Broken(b, n, L) => m = n /\ Broken(b, m, M)'
  PROVE  /\ \A t \in Readers : ReaderIs(b, m, M, t)'
         /\ Retiring(b, m)'
         /\ \A t \in Readers : Left(t)' = Left(t)
         /\ \A k \in Nat : Gone(k)' = Gone(k)
  <1>1. Sent \in Nat /\ Sent' \in Nat /\ \A t \in Readers : Len(out[t]) \in Nat
    <2>1. Sent \in Nat /\ \A t \in Readers : Len(out[t]) \in Nat
      BY NumbersAre, GroupIs
    <2>2. out'[Root] \in Seq(Values)
      BY GroupIs DEF TypeOK
    <2>3. Sent' \in Nat
      BY <2>2 DEF Sent
    <2> QED  BY <2>1, <2>3
  <1>2. \A t \in Readers : Left(t)' = Left(t)
    BY DEF Left
  <1>3. \A k \in Nat : Gone(k)' = Gone(k)
    BY <1>2 DEF Gone
  <1>4. Retiring(b, m)'
    <2> SUFFICES ASSUME b < m, \A t \in Readers : b < Left(t)' PROVE \E u \in Readers : pc'[u] = "retire"
      BY DEF Retiring
    <2>1. PICK u \in Readers : pc[u] = "retire"
      BY <1>2 DEF Retiring
    <2> QED  BY <2>1
  <1>5. ASSUME NEW t \in Readers PROVE ReaderIs(b, m, M, t)'
    <2>1. ReaderIs(b, n, L, t)
      OBVIOUS
    <2>2. item'[t] = item[t] /\ key'[t] = key[t] /\ out'[t] = out[t] /\ Left(t)' = Left(t) /\ Len(out[t]) \in Nat
      BY <1>1, <1>2
    <2>3. pc'[t] = pc[t] \/ (pc[t] = "sleep" /\ pc'[t] = "lock")
      OBVIOUS
    <2>4. pc[t] = "retire" => \A u \in Readers : b < Left(u)' /\ (u # t => pc'[u] # "retire")
      BY <2>1, <1>2 DEF ReaderIs
    <2>5. \A k \in Nat : k >= 1 /\ k <= n => M[k] = L[k]
      OBVIOUS
    <2>6. pc'[t] \in ReaderPlaces /\ b <= Left(t)' /\ (Len(out[t]) <= Sent' \/ m <= Sent')
      BY <2>1, <2>2, <2>3, <1>1 DEF ReaderIs, ReaderPlaces
    <2>7. Len(out[t]) < n => M[Len(out[t]) + 1] = L[Len(out[t]) + 1]
      BY <2>2, <2>5
    <2>8. pc'[t] \in {"lock", "sleep", "copy"} => Len(out[t]) < m /\ item[t] = M[Len(out[t]) + 1]
      BY <2>1, <2>2, <2>3, <2>7 DEF ReaderIs
    <2>9. pc'[t] = "copy" => Len(out[t]) < Sent'
      BY <2>1, <2>2, <2>3, <1>1 DEF ReaderIs
    <2>10. pc'[t] = "leave" => /\ b < Len(out[t]) /\ Len(out[t]) <= m /\ Len(out[t]) <= Sent'
                               /\ item[t] = M[Len(out[t])]
      BY <2>1, <2>2, <2>3, <2>5, <1>1 DEF ReaderIs
    <2>11. pc'[t] = "retire" => b < m /\ Len(out[t]) = b + 1 /\ b < Sent' /\ item[t] = M[b + 1]
      BY <2>1, <2>2, <2>3, <2>5, <1>1 DEF ReaderIs
    <2>12. pc'[t] = "retire" => \A u \in Readers : b < Left(u)' /\ (u # t => pc'[u] # "retire")
      BY <2>3, <2>4
    <2>13. pc'[t] \notin {"lock", "sleep", "copy"} =>
             \/ key[t] = Null /\ Len(out[t]) = 0
             \/ Len(out[t]) < m /\ key[t] = M[Len(out[t]) + 1]
             \/ m <= Len(out[t]) /\ m <= Sent' /\ Broken(b, m, M)' /\ key[t] = Bad
      BY <2>1, <2>2, <2>3, <2>7, <1>1 DEF ReaderIs
    <2> QED  BY <2>2, <2>6, <2>8, <2>9, <2>10, <2>11, <2>12, <2>13 DEF ReaderIs
  <1> QED  BY <1>2, <1>3, <1>4, <1>5

\* The root returns at once when the queue has broken.
LEMMA EnterBadRootStep ==
  ASSUME BInv, EnterBad(Root)
  PROVE  BInv'
  <1>1. TypeOK /\ \E b, n, p \in Nat, L, P \in [Nat -> Handles] : InvFor(b, n, L, p, P)
    BY DEF BInv
  <1>2. PICK b, n, p \in Nat, L, P \in [Nat -> Handles] : InvFor(b, n, L, p, P)
    BY <1>1
  <1>3. /\ QueueIs(b, n, L) /\ PoolIs(p, P) /\ RootIs(b, n, L) /\ AllocIs(p, P) /\ ItemsAre(b, n, L)
        /\ Placed(b, n, L, p, P) /\ Retiring(b, n)
        /\ \A t \in Readers : ReaderIs(b, n, L, t)
    BY <1>2 DEF InvFor
  <1>4. /\ pc[Root] = "out" /\ (IF key[Root] = Null THEN first ELSE key[Root]) = Bad
        /\ out' = [out EXCEPT ![Root] = Append(@, -1)]
        /\ UNCHANGED <<next, avail, data, first, free, made, key, pc, item, new, link, fails, spurious>>
    BY DEF EnterBad, Return, list, bounds
  <1>5. Sent \in Nat /\ Root \in Nodes /\ Root \notin Readers /\ made \in Nat /\ made <= MaxHandles
    BY <1>1, NumbersAre, GroupIs
  <1>6. out[Root] \in Seq(Values) /\ -1 \in Values /\ out'[Root] = Append(out[Root], -1)
    BY <1>1, <1>4, <1>5 DEF TypeOK, Values
  <1>7. TypeOK'
    <2>1. Append(out[Root], -1) \in Seq(Values)
      BY <1>6
    <2> QED  BY <2>1, <1>1, <1>4 DEF TypeOK
  <1>8. /\ Sent' = Sent + 1 /\ out'[Root][Sent + 1] = -1
        /\ \A k \in 1..Sent : out'[Root][k] = out[Root][k]
    BY <1>6 DEF Sent
  <1>9. Broken(b, n, L) /\ n <= Sent /\ key[Root] = Bad
    <2>1. Broken(b, n, L)
      <3> SUFFICES ASSUME ~Broken(b, n, L) PROVE FALSE
        OBVIOUS
      <3>1. b < n /\ n = Sent + 1 /\ (key[Root] = L[n] \/ (key[Root] = Null /\ n = 1))
        BY <1>3, <1>4 DEF RootIs, Broken, QueueIs
      <3>2. first = L[b + 1] /\ L[n] \in Handles /\ L[b + 1] \in Handles /\ Bad \notin Handles
        BY <3>1, <1>3 DEF QueueIs, Handles, Bad
      <3> QED  BY <3>1, <3>2, <1>4 DEF Null, Bad
    <2> QED  BY <2>1, <1>3, <1>4 DEF RootIs
  <1>10. QueueIs(b, n, L)' /\ (Broken(b, n, L)' <=> Broken(b, n, L))
    BY <1>3, <1>4, <1>5, QueueFrame
  <1>11. PoolIs(p, P)'
    BY <1>3, <1>4, <1>5, PoolFrame
  <1>12. Placed(b, n, L, p, P)'
    <2>1. \A t \in Nodes, h \in Handles : Holds(t, h)' <=> Holds(t, h)
      BY <1>4 DEF Holds
    <2> QED  BY <2>1, <1>3, <1>4, PlacedFrame
  <1>13. \A t \in Readers : pc'[t] = pc[t] /\ item'[t] = item[t] /\ key'[t] = key[t] /\ out'[t] = out[t]
    BY <1>1, <1>4, <1>5, GroupIs DEF TypeOK
  <1>14. /\ \A t \in Readers : ReaderIs(b, n, L, t)'
         /\ Retiring(b, n)' /\ \A k \in Nat : Gone(k)' = Gone(k)
    <2>1. n >= n /\ Sent' >= Sent /\ (Broken(b, n, L) => n = n /\ Broken(b, n, L)')
      BY <1>5, <1>8, <1>10
    <2>2. \A t \in Readers : item'[t] = item[t] /\ key'[t] = key[t] /\ out'[t] = out[t]
      BY <1>13
    <2>3. \A t \in Readers : pc'[t] = pc[t] \/ (pc[t] = "sleep" /\ pc'[t] = "lock")
      BY <1>13
    <2> QED  BY <2>1, <2>2, <2>3, <1>1, <1>3, <1>7, ReadersKeep
  <1>15. RootIs(b, n, L)'
    BY <1>3, <1>4, <1>5, <1>8, <1>9, <1>10 DEF RootIs
  <1>16. AllocIs(p, P)'
    BY <1>4 DEF AllocIs
  <1>17. ItemsAre(b, n, L)'
    <2>1. ASSUME NEW k \in (b + 1)..n PROVE data[L[k]] = out'[Root][k] /\ avail[L[k]] = 1 + Cardinality(Gone(k)')
      <3>1. k <= Sent /\ k \in 1..Sent /\ k \in Nat
        BY <1>5, <1>9
      <3> QED  BY <3>1, <1>3, <1>8, <1>14 DEF ItemsAre
    <2>2. ASSUME NEW k \in 1..(Sent + 1), k > n PROVE out'[Root][k] = -1
      <3>1. CASE k = Sent + 1
        BY <3>1, <1>8
      <3>2. CASE k # Sent + 1
        <4>1. k \in 1..Sent
          BY <3>2, <1>5
        <4> QED  BY <4>1, <2>2, <1>3, <1>8 DEF ItemsAre
      <3> QED  BY <3>1, <3>2
    <2>3. \A k \in (b + 1)..n : k <= Sent'
      BY <1>5, <1>8, <1>9
    <2> QED  BY <2>1, <2>2, <2>3, <1>4, <1>8 DEF ItemsAre
  <1>18. InvFor(b, n, L, p, P)'
    BY <1>10, <1>11, <1>12, <1>14, <1>15, <1>16, <1>17 DEF InvFor
  <1> QED  BY <1>7, <1>18 DEF BInv

\* The handle the root has taken is neither in the queue nor in the pool, and its item is the
\* last of the queue.
LEMMA FillFacts ==
  ASSUME TypeOK, NEW b \in Nat, NEW n \in Nat, NEW p \in Nat, NEW L, NEW P, InvFor(b, n, L, p, P),
         NEW e, NEW w, e = item[Root], w = new, Fill
  PROVE  /\ pc[Root] = "fill" /\ pc' = [pc EXCEPT ![Root] = "publish"] /\ pc' \in [Nodes -> Places]
         /\ pc'[Root] = "publish" /\ \A t \in Readers : pc'[t] = pc[t]
         /\ next' = [x \in Handles |-> CASE x = e -> w [] x = w -> Null [] OTHER -> next[x]]
         /\ avail' = [x \in Handles |-> IF x = w THEN 0 ELSE avail[x]]
         /\ data' \in [Handles -> Values] /\ \A x \in Handles : x # e => data'[x] = data[x]
         /\ fails' \in 0..MaxFails
         /\ UNCHANGED <<first, free, made, key, item, new, link, spurious, out>>
         /\ b < n /\ ~Broken(b, n, L) /\ n = Sent + 1 /\ e = L[n] /\ e \in Handles /\ InQueue(b, n, L, e)
         /\ w \in Handles \cup {Bad} /\ e # w
         /\ \A h \in Handles : Holds(Root, h) <=> h = w
         /\ \A h \in Handles : ~Holds(Root, h)'
         /\ \A k \in (b + 1)..n : L[k] \in Handles /\ L[k] # w /\ (k < n => L[k] # e)
         /\ \A i \in 1..p : P[i] \in Handles /\ P[i] # w /\ P[i] # e
         /\ \A t \in Readers, h \in Handles : Holds(t, h)' <=> Holds(t, h)
  <1>1. /\ QueueIs(b, n, L) /\ PoolIs(p, P) /\ RootIs(b, n, L) /\ AllocIs(p, P) /\ Placed(b, n, L, p, P)
        /\ \A t \in Readers : ReaderIs(b, n, L, t)
    BY DEF InvFor
  <1>2. /\ Root \in Nodes /\ Sent \in Nat /\ made \in Nat /\ made <= MaxHandles /\ MaxHandles \in Nat
        /\ Rounds \in Nat /\ MaxFails \in Nat
    BY NumbersAre, GroupIs, BoundsAssumption
  <1>3. /\ pc[Root] = "fill" /\ pc' = [pc EXCEPT ![Root] = "publish"]
        /\ next' = [x \in Handles |-> CASE x = e -> w [] x = w -> Null [] OTHER -> next[x]]
        /\ avail' = [x \in Handles |-> IF x = w THEN 0 ELSE avail[x]]
        /\ UNCHANGED <<first, free, made, key, item, new, link, spurious, out>>
    BY DEF Fill, Goto
  <1>4. pc'[Root] = "publish" /\ (\A t \in Readers : pc'[t] = pc[t]) /\ pc' \in [Nodes -> Places]
    BY <1>3, GroupIs DEF TypeOK, Places
  <1>5. b < n /\ ~Broken(b, n, L) /\ n = Sent + 1 /\ e = L[n]
    BY <1>1, <1>3 DEF RootIs, Broken, QueueIs
  <1>6. \A k \in (b + 1)..n : L[k] \in Handles /\ InQueue(b, n, L, L[k])
    BY <1>1, <1>2 DEF QueueIs, Handles, InQueue
  <1>7. e \in Handles /\ InQueue(b, n, L, e)
    BY <1>5, <1>6
  <1>8. w \in Handles \cup {Bad}
    BY <1>1, <1>2, <1>3 DEF AllocIs, Handles
  <1>9. \A h \in Handles : (Holds(Root, h) <=> h = w) /\ ~Holds(Root, h)'
    BY <1>3, <1>4 DEF Holds
  <1>10. \A h \in Handles : h = w => ~InQueue(b, n, L, h) /\ ~InPool(p, P, h)
    BY <1>1, <1>2, <1>9 DEF Placed
  <1>11. \A i \in 1..p : P[i] \in Handles /\ InPool(p, P, P[i])
    BY <1>1, <1>2 DEF PoolIs, Handles, InPool
  <1>12. \A i \in 1..p : P[i] # w /\ P[i] # e
    BY <1>1, <1>7, <1>10, <1>11 DEF Placed
  <1>13. e # w /\ \A k \in (b + 1)..n : L[k] # w /\ (k < n => L[k] # e)
    <2>1. \A k \in (b + 1)..n : k < n => L[k] # L[n]
      BY <1>1, <1>5 DEF QueueIs
    <2> QED  BY <2>1, <1>5, <1>6, <1>7, <1>10
  <1>14. data' \in [Handles -> Values] /\ (\A x \in Handles : x # e => data'[x] = data[x]) /\ fails' \in 0..MaxFails
    <2>1. data \in [Handles -> Values] /\ fails \in 0..MaxFails /\ NoMemory \in Values
      BY DEF TypeOK, Values
    <2>2. CASE data' = [data EXCEPT ![e] = Sent + 1] /\ fails' = fails
      <3>1. Sent + 1 \in Values
        BY <1>1, <1>2, <1>3 DEF Values, RootIs
      <3> QED  BY <2>1, <2>2, <3>1
    <2>3. CASE data' = [data EXCEPT ![e] = NoMemory] /\ fails < MaxFails /\ fails' = fails + 1
      <3>1. fails + 1 \in 0..MaxFails
        BY <2>1, <2>3, <1>2
      <3>2. data' \in [Handles -> Values] /\ \A x \in Handles : x # e => data'[x] = data[x]
        BY <2>1, <2>3
      <3> QED  BY <2>3, <3>1, <3>2
    <2> QED  BY <2>2, <2>3 DEF Fill, Sent
  <1>15. \A t \in Readers, h \in Handles : Holds(t, h)' <=> Holds(t, h)
    <2> SUFFICES ASSUME NEW t \in Readers, NEW h \in Handles PROVE Holds(t, h)' <=> Holds(t, h)
      OBVIOUS
    <2>1. pc[t] \in ReaderPlaces /\ pc'[t] = pc[t] /\ item'[t] = item[t]
      BY <1>1, <1>3, <1>4 DEF ReaderIs
    <2> QED  BY <2>1 DEF Holds, ReaderPlaces
  <1> QED  BY <1>3, <1>4, <1>5, <1>6, <1>7, <1>8, <1>9, <1>11, <1>12, <1>13, <1>14, <1>15

\* The root fills its item and links the handle it has taken behind it: that is the item of
\* the next round.
LEMMA FillStep ==
  ASSUME BInv, Fill, new # Bad
  PROVE  BInv'
  <1>1. TypeOK /\ \E b, n, p \in Nat, L, P \in [Nat -> Handles] : InvFor(b, n, L, p, P)
    BY DEF BInv
  <1>2. PICK b, n, p \in Nat, L, P \in [Nat -> Handles] : InvFor(b, n, L, p, P)
    BY <1>1
  <1>3. /\ QueueIs(b, n, L) /\ PoolIs(p, P) /\ RootIs(b, n, L) /\ AllocIs(p, P) /\ Placed(b, n, L, p, P)
        /\ ItemsAre(b, n, L) /\ Retiring(b, n)
        /\ \A t \in Readers : ReaderIs(b, n, L, t)
    BY <1>2 DEF InvFor
  <1>4. PICK e, w : e = item[Root] /\ w = new
    OBVIOUS
  <1>5. /\ pc[Root] = "fill" /\ pc' \in [Nodes -> Places] /\ pc'[Root] = "publish" /\ \A t \in Readers : pc'[t] = pc[t]
        /\ next' = [x \in Handles |-> CASE x = e -> w [] x = w -> Null [] OTHER -> next[x]]
        /\ avail' = [x \in Handles |-> IF x = w THEN 0 ELSE avail[x]]
        /\ data' \in [Handles -> Values] /\ \A x \in Handles : x # e => data'[x] = data[x]
        /\ fails' \in 0..MaxFails
        /\ UNCHANGED <<first, free, made, key, item, new, link, spurious, out>>
    BY <1>1, <1>2, <1>4, FillFacts
  <1>6. /\ b < n /\ ~Broken(b, n, L) /\ n = Sent + 1 /\ e = L[n] /\ e \in Handles /\ InQueue(b, n, L, e)
        /\ w \in Handles /\ e # w
        /\ \A h \in Handles : Holds(Root, h) <=> h = w
        /\ \A h \in Handles : ~Holds(Root, h)'
        /\ \A k \in (b + 1)..n : L[k] \in Handles /\ L[k] # w /\ (k < n => L[k] # e)
        /\ \A i \in 1..p : P[i] \in Handles /\ P[i] # w /\ P[i] # e
        /\ \A t \in Readers, h \in Handles : Holds(t, h)' <=> Holds(t, h)
    BY <1>1, <1>2, <1>4, FillFacts
  <1>7. /\ Root \in Nodes /\ Sent \in Nat /\ Sent' = Sent /\ made \in Nat /\ made <= MaxHandles /\ MaxHandles \in Nat
        /\ group_size \in Nat
    BY <1>1, <1>5, NumbersAre, GroupIs DEF Sent
  <1>8. /\ next'[e] = w /\ next'[w] = Null
        /\ \A x \in Handles : x # e /\ x # w => next'[x] = next[x]
        /\ next' \in [Handles -> HandleOrNull \cup {Bad}]
    <2>1. next \in [Handles -> HandleOrNull \cup {Bad}] /\ w \in HandleOrNull /\ Null \in HandleOrNull
      BY <1>1, <1>6 DEF TypeOK, HandleOrNull
    <2> QED  BY <2>1, <1>5, <1>6
  <1>9. avail' \in [Handles -> 0..group_size] /\ avail'[w] = 0 /\ \A x \in Handles : x # w => avail'[x] = avail[x]
    BY <1>1, <1>5, <1>6, <1>7 DEF TypeOK
  <1>10. TypeOK'
    BY <1>1, <1>5, <1>8, <1>9 DEF TypeOK
  <1>11. PICK M : M = [L EXCEPT ![n + 1] = w]
    OBVIOUS
  <1>12. /\ M \in [Nat -> Handles] /\ M[n + 1] = w
         /\ \A k \in Nat : k # n + 1 => M[k] = L[k]
    BY <1>6, <1>11
  <1>13. \A k \in (b + 1)..(n + 1) : k = n + 1 \/ (k \in (b + 1)..n /\ M[k] = L[k])
    BY <1>12
  <1>14. QueueIs(b, n + 1, M)'
    <2>1. \A k \in (b + 1)..(n + 1) : M[k] \in 0..(made - 1)
      <3>1. w \in 0..(made - 1)
        <4>1. w < made
          BY <1>3, <1>6, <1>7 DEF Placed
        <4> QED  BY <4>1, <1>6, <1>7 DEF Handles
      <3> QED  BY <3>1, <1>3, <1>12, <1>13 DEF QueueIs
    <2>2. \A i, j \in (b + 1)..(n + 1) : M[i] = M[j] => i = j
      BY <1>3, <1>6, <1>12, <1>13 DEF QueueIs
    <2>3. ASSUME NEW k \in (b + 1)..n PROVE next'[M[k]] = M[k + 1]
      <3>1. k \in Nat /\ k # n + 1 /\ M[k] = L[k] /\ k + 1 \in Nat
        BY <1>12
      <3>2. CASE k = n
        BY <3>1, <3>2, <1>6, <1>8, <1>12
      <3>3. CASE k # n
        <4>1. k < n /\ k \in (b + 1)..(n - 1) /\ k + 1 # n + 1
          BY <3>3
        <4>2. next[L[k]] = L[k + 1] /\ M[k + 1] = L[k + 1]
          BY <4>1, <3>1, <1>3, <1>12 DEF QueueIs
        <4>3. next'[L[k]] = next[L[k]]
          BY <4>1, <1>6, <1>8
        <4> QED  BY <4>2, <4>3, <3>1
      <3> QED  BY <3>2, <3>3
    <2>4. first' = M[b + 1] /\ next'[M[n + 1]] = Null
      BY <1>3, <1>5, <1>6, <1>8, <1>12 DEF QueueIs
    <2>5. n + 1 \in Nat /\ b <= n + 1 /\ 1 <= n + 1 /\ b # n + 1 /\ (n + 1) - 1 = n
      BY <1>6
    <2> QED  BY <2>1, <2>2, <2>3, <2>4, <2>5, <1>5 DEF QueueIs
  <1>15. ~Broken(b, n + 1, M)'
    BY <1>6, <1>8, <1>12 DEF Broken, Null, Bad
  <1>16. PoolIs(p, P)'
    BY <1>3, <1>5, <1>6, <1>7, <1>8, PoolFrame
  <1>17. \A h \in Handles : InQueue(b, n + 1, M, h) <=> InQueue(b, n, L, h) \/ h = w
    <2> SUFFICES ASSUME NEW h \in Handles PROVE InQueue(b, n + 1, M, h) <=> InQueue(b, n, L, h) \/ h = w
      OBVIOUS
    <2>1. \A k \in (b + 1)..n : k \in (b + 1)..(n + 1) /\ M[k] = L[k]
      BY <1>12
    <2>2. n + 1 \in (b + 1)..(n + 1)
      BY <1>6
    <2> QED  BY <2>1, <2>2, <1>12, <1>13 DEF InQueue
  <1>18. Placed(b, n + 1, M, p, P)'
    <2> SUFFICES ASSUME NEW h \in Handles
                 PROVE  /\ h < made <=> InQueue(b, n + 1, M, h) \/ InPool(p, P, h) \/ \E t \in Nodes : Holds(t, h)'
                        /\ ~(InQueue(b, n + 1, M, h) /\ InPool(p, P, h))
                        /\ \A t \in Nodes : Holds(t, h)' =>
                             /\ ~InQueue(b, n + 1, M, h) /\ ~InPool(p, P, h)
                             /\ \A u \in Nodes : u # t => ~Holds(u, h)'
      BY <1>5 DEF Placed, InQueue, InPool
    <2>1. /\ h < made <=> InQueue(b, n, L, h) \/ InPool(p, P, h) \/ \E t \in Nodes : Holds(t, h)
          /\ ~(InQueue(b, n, L, h) /\ InPool(p, P, h))
          /\ \A t \in Nodes : Holds(t, h) =>
               /\ ~InQueue(b, n, L, h) /\ ~InPool(p, P, h)
               /\ \A u \in Nodes : u # t => ~Holds(u, h)
      BY <1>3 DEF Placed
    <2>2. /\ Holds(Root, h) <=> h = w
          /\ ~Holds(Root, h)'
          /\ \A t \in Readers : Holds(t, h)' <=> Holds(t, h)
      BY <1>6
    <2>3. InQueue(b, n + 1, M, h) <=> InQueue(b, n, L, h) \/ h = w
      BY <1>17
    <2>4. Root \in Nodes /\ Root \notin Readers /\ Readers \subseteq Nodes /\ \A t \in Nodes : t = Root \/ t \in Readers
      BY GroupIs
    <2>5. CASE h = w
      BY <2>1, <2>2, <2>3, <2>4, <2>5
    <2>6. CASE h # w
      BY <2>1, <2>2, <2>3, <2>4, <2>6
    <2> QED  BY <2>5, <2>6
  <1>19. RootIs(b, n + 1, M)'
    <2>1. item'[Root] = M[Sent' + 1] /\ new' # Bad /\ new' = M[n + 1] /\ n + 1 = Sent' + 2 /\ b <= Sent' /\ Sent' < Rounds
      BY <1>3, <1>4, <1>5, <1>6, <1>7, <1>12 DEF RootIs
    <2> QED  BY <2>1, <1>5, <1>15 DEF RootIs, RootPlaces
  <1>20. AllocIs(p, P)'
    BY <1>5 DEF AllocIs
  <1>21. /\ \A t \in Readers : ReaderIs(b, n + 1, M, t)'
         /\ Retiring(b, n + 1)' /\ \A k \in Nat : Gone(k)' = Gone(k)
    <2>1. n + 1 >= n /\ n > Sent /\ n + 1 \in Nat /\ Sent' >= Sent
      BY <1>6, <1>7
    <2>2. \A t \in Readers : item'[t] = item[t] /\ key'[t] = key[t] /\ out'[t] = out[t]
      BY <1>5
    <2>3. \A t \in Readers : pc'[t] = pc[t] \/ (pc[t] = "sleep" /\ pc'[t] = "lock")
      BY <1>5
    <2>4. \A k \in 1..n : M[k] = L[k]
      BY <1>12
    <2> QED  BY <2>1, <2>2, <2>3, <2>4, <1>1, <1>3, <1>6, <1>10, ReadersKeep
  <1>22. ItemsAre(b, n + 1, M)'
    <2>1. ASSUME NEW k \in (b + 1)..(n + 1), k <= Sent
          PROVE data'[M[k]] = out[Root][k] /\ avail'[M[k]] = 1 + Cardinality(Gone(k)')
      <3>1. k \in Nat /\ k \in (b + 1)..n /\ k < n /\ M[k] = L[k] /\ L[k] \in Handles /\ L[k] # e /\ L[k] # w
        BY <2>1, <1>6, <1>7, <1>12
      <3>2. data'[L[k]] = data[L[k]] /\ avail'[L[k]] = avail[L[k]] /\ Gone(k)' = Gone(k)
        BY <3>1, <1>5, <1>9, <1>21
      <3> QED  BY <3>1, <3>2, <2>1, <1>3 DEF ItemsAre
    <2>2. ASSUME NEW k \in (b + 1)..(n + 1), ~(k <= Sent) PROVE avail'[M[k]] = 0
      <3>1. CASE k = n + 1
        BY <3>1, <1>9, <1>12
      <3>2. CASE k # n + 1
        <4>1. k \in (b + 1)..n /\ M[k] = L[k] /\ L[k] \in Handles /\ L[k] # w
          BY <3>2, <1>6, <1>13
        <4>2. avail'[L[k]] = avail[L[k]]
          BY <4>1, <1>9
        <4> QED  BY <4>1, <4>2, <2>2, <1>3 DEF ItemsAre
      <3> QED  BY <3>1, <3>2
    <2>3. \A k \in 1..Sent : ~(k > n + 1)
      BY <1>6, <1>7
    <2> QED  BY <2>1, <2>2, <2>3, <1>5, <1>7 DEF ItemsAre
  <1>23. InvFor(b, n + 1, M, p, P)'
    BY <1>14, <1>16, <1>18, <1>19, <1>20, <1>21, <1>22 DEF InvFor
  <1>24. n + 1 \in Nat
    OBVIOUS
  <1> QED  BY <1>10, <1>12, <1>23, <1>24 DEF BInv

\* Without memory for a handle the root breaks the queue behind its item.
LEMMA FillBadStep ==
  ASSUME BInv, Fill, new = Bad
  PROVE  BInv'
  <1>1. TypeOK /\ \E b, n, p \in Nat, L, P \in [Nat -> Handles] : InvFor(b, n, L, p, P)
    BY DEF BInv
  <1>2. PICK b, n, p \in Nat, L, P \in [Nat -> Handles] : InvFor(b, n, L, p, P)
    BY <1>1
  <1>3. /\ QueueIs(b, n, L) /\ PoolIs(p, P) /\ RootIs(b, n, L) /\ AllocIs(p, P) /\ Placed(b, n, L, p, P)
        /\ ItemsAre(b, n, L) /\ Retiring(b, n)
        /\ \A t \in Readers : ReaderIs(b, n, L, t)
    BY <1>2 DEF InvFor
  <1>4. PICK e, w : e = item[Root] /\ w = new
    OBVIOUS
  <1>5. /\ pc[Root] = "fill" /\ pc' \in [Nodes -> Places] /\ pc'[Root] = "publish" /\ \A t \in Readers : pc'[t] = pc[t]
        /\ next' = [x \in Handles |-> CASE x = e -> w [] x = w -> Null [] OTHER -> next[x]]
        /\ avail' = [x \in Handles |-> IF x = w THEN 0 ELSE avail[x]]
        /\ data' \in [Handles -> Values] /\ \A x \in Handles : x # e => data'[x] = data[x]
        /\ fails' \in 0..MaxFails
        /\ UNCHANGED <<first, free, made, key, item, new, link, spurious, out>>
    BY <1>1, <1>2, <1>4, FillFacts
  <1>6. /\ b < n /\ ~Broken(b, n, L) /\ n = Sent + 1 /\ e = L[n] /\ e \in Handles
        /\ \A h \in Handles : Holds(Root, h) <=> h = w
        /\ \A h \in Handles : ~Holds(Root, h)'
        /\ \A k \in (b + 1)..n : L[k] \in Handles /\ (k < n => L[k] # e)
        /\ \A i \in 1..p : P[i] \in Handles /\ P[i] # e
        /\ \A t \in Readers, h \in Handles : Holds(t, h)' <=> Holds(t, h)
    BY <1>1, <1>2, <1>4, FillFacts
  <1>7. /\ Root \in Nodes /\ Sent \in Nat /\ Sent' = Sent /\ made \in Nat /\ made <= MaxHandles /\ MaxHandles \in Nat
        /\ group_size \in Nat
    BY <1>1, <1>5, NumbersAre, GroupIs DEF Sent
  <1>8. w = Bad /\ w \notin Handles
    BY <1>4 DEF Bad, Handles
  <1>9. /\ next'[e] = Bad
        /\ \A x \in Handles : x # e => next'[x] = next[x]
        /\ next' \in [Handles -> HandleOrNull \cup {Bad}]
    <2>1. next \in [Handles -> HandleOrNull \cup {Bad}]
      BY <1>1 DEF TypeOK
    <2> QED  BY <2>1, <1>5, <1>6, <1>8
  <1>10. avail' = avail
    <2>1. avail \in [Handles -> 0..group_size]
      BY <1>1 DEF TypeOK
    <2> QED  BY <2>1, <1>5, <1>8
  <1>11. TypeOK'
    BY <1>1, <1>5, <1>9, <1>10 DEF TypeOK
  <1>12. QueueIs(b, n, L)'
    <2>1. ASSUME NEW k \in (b + 1)..(n - 1) PROVE next'[L[k]] = L[k + 1]
      <3>1. k \in (b + 1)..n /\ k < n
        OBVIOUS
      <3>2. next'[L[k]] = next[L[k]]
        BY <3>1, <1>6, <1>9
      <3> QED  BY <3>2, <1>3 DEF QueueIs
    <2>2. next'[L[n]] = Bad
      BY <1>6, <1>9
    <2> QED  BY <2>1, <2>2, <1>3, <1>5, <1>6 DEF QueueIs
  <1>13. Broken(b, n, L)'
    BY <1>6, <1>9 DEF Broken
  <1>14. PoolIs(p, P)'
    BY <1>3, <1>5, <1>6, <1>7, <1>9, PoolFrame
  <1>15. Placed(b, n, L, p, P)'
    <2>1. \A t \in Nodes, h \in Handles : Holds(t, h)' <=> Holds(t, h)
      BY <1>6, <1>8, GroupIs
    <2> QED  BY <2>1, <1>3, <1>5, PlacedFrame
  <1>16. RootIs(b, n, L)'
    <2>1. item'[Root] = L[Sent' + 1] /\ new' = Bad /\ n = Sent' + 1 /\ b <= Sent' /\ Sent' < Rounds
      BY <1>3, <1>4, <1>5, <1>6, <1>7, <1>8 DEF RootIs
    <2> QED  BY <2>1, <1>5, <1>13 DEF RootIs, RootPlaces
  <1>17. AllocIs(p, P)'
    BY <1>5 DEF AllocIs
  <1>18. /\ \A t \in Readers : ReaderIs(b, n, L, t)'
         /\ Retiring(b, n)' /\ \A k \in Nat : Gone(k)' = Gone(k)
    BY <1>3, <1>5, <1>13, ReadersFrame
  <1>19. ItemsAre(b, n, L)'
    <2>1. \A k \in (b + 1)..n : k <= Sent => data'[L[k]] = data[L[k]]
      BY <1>5, <1>6, <1>7
    <2> QED  BY <2>1, <1>3, <1>5, <1>10, <1>18, ItemsFrame
  <1>20. InvFor(b, n, L, p, P)'
    BY <1>12, <1>14, <1>15, <1>16, <1>17, <1>18, <1>19 DEF InvFor
  <1> QED  BY <1>11, <1>20 DEF BInv

\* The root makes its item available, wakes the readers that wait for it, and returns.  No
\* reader has left the item yet, so the count starts at one.
LEMMA PublishStep ==
  ASSUME BInv, Publish
  PROVE  BInv'
  <1>1. TypeOK /\ \E b, n, p \in Nat, L, P \in [Nat -> Handles] : InvFor(b, n, L, p, P)
    BY DEF BInv
  <1>2. PICK b, n, p \in Nat, L, P \in [Nat -> Handles] : InvFor(b, n, L, p, P)
    BY <1>1
  <1>3. /\ QueueIs(b, n, L) /\ PoolIs(p, P) /\ RootIs(b, n, L) /\ Placed(b, n, L, p, P)
        /\ ItemsAre(b, n, L) /\ Retiring(b, n)
        /\ \A t \in Readers : ReaderIs(b, n, L, t)
    BY <1>2 DEF InvFor
  <1>4. PICK e, v, s : e = item[Root] /\ v = data[e] /\ s = Sent
    OBVIOUS
  <1>5. /\ pc[Root] = "publish"
        /\ avail' = [avail EXCEPT ![e] = 1]
        /\ pc' = [t \in Nodes |-> IF t = Root THEN "out"
                                  ELSE IF pc[t] = "sleep" /\ item[t] = e THEN "lock"
                                  ELSE pc[t]]
        /\ key' = [key EXCEPT ![Root] = new]
        /\ out' = [out EXCEPT ![Root] = Append(@, v)]
        /\ UNCHANGED <<next, data, first, free, made, item, new, link, fails, spurious>>
    BY <1>4 DEF Publish, Return, bounds
  <1>6. /\ Root \in Nodes /\ Root \notin Readers /\ Readers \subseteq Nodes /\ s \in Nat
        /\ made \in Nat /\ made <= MaxHandles /\ MaxHandles \in Nat /\ group_size \in Nat /\ group_size >= 2
        /\ \A t \in Readers : Len(out[t]) \in Nat /\ Left(t) \in Int /\ Left(t) <= Len(out[t])
    BY <1>1, <1>4, NumbersAre, GroupIs
  <1>7. /\ pc'[Root] = "out" /\ pc' \in [Nodes -> Places]
        /\ \A t \in Readers : pc'[t] = pc[t] \/ (pc[t] = "sleep" /\ pc'[t] = "lock")
    <2>1. pc \in [Nodes -> Places]
      BY <1>1 DEF TypeOK
    <2>2. "lock" \in Places /\ "out" \in Places
      BY DEF Places
    <2> QED  BY <2>1, <2>2, <1>5, <1>6
  <1>8. /\ e = L[s + 1] /\ b <= s /\ s < n /\ s < Rounds
        /\ new = Bad => Broken(b, n, L) /\ n = s + 1
        /\ new # Bad => ~Broken(b, n, L) /\ n = s + 2 /\ new = L[n]
    BY <1>3, <1>4, <1>5, <1>6 DEF RootIs
  <1>9. s + 1 \in (b + 1)..n /\ e \in Handles /\ v \in Values
    <2>1. s + 1 \in (b + 1)..n /\ e \in Handles
      BY <1>6, <1>8
    <2> QED  BY <2>1, <1>1, <1>4 DEF TypeOK
  <1>10. /\ \A t \in Readers : item'[t] = item[t] /\ key'[t] = key[t] /\ out'[t] = out[t]
         /\ key'[Root] = new /\ out[Root] \in Seq(Values) /\ out'[Root] = Append(out[Root], v)
    BY <1>1, <1>5, <1>6 DEF TypeOK
  <1>11. /\ Sent' = s + 1 /\ out'[Root][s + 1] = v
         /\ \A k \in 1..s : out'[Root][k] = out[Root][k]
    BY <1>4, <1>9, <1>10 DEF Sent
  <1>12. avail' \in [Handles -> 0..group_size] /\ avail'[e] = 1 /\ \A x \in Handles : x # e => avail'[x] = avail[x]
    BY <1>1, <1>5, <1>6, <1>9 DEF TypeOK
  <1>13. TypeOK'
    <2>1. Append(out[Root], v) \in Seq(Values)
      BY <1>9, <1>10
    <2>2. out' \in [Nodes -> Seq(Values)]
      BY <2>1, <1>1, <1>5, <1>10 DEF TypeOK
    <2>3. key' \in [Nodes -> HandleOrNull \cup {Bad}]
      BY <1>1, <1>5 DEF TypeOK
    <2> QED  BY <2>2, <2>3, <1>1, <1>5, <1>7, <1>12 DEF TypeOK
  <1>14. QueueIs(b, n, L)' /\ (Broken(b, n, L)' <=> Broken(b, n, L))
    BY <1>3, <1>5, <1>6, QueueFrame
  <1>15. PoolIs(p, P)'
    BY <1>3, <1>5, <1>6, PoolFrame
  <1>16. Placed(b, n, L, p, P)'
    <2>1. \A t \in Nodes, h \in Handles : Holds(t, h)' <=> Holds(t, h)
      <3> SUFFICES ASSUME NEW t \in Nodes, NEW h \in Handles PROVE Holds(t, h)' <=> Holds(t, h)
        OBVIOUS
      <3>1. CASE t = Root
        BY <3>1, <1>5, <1>7 DEF Holds
      <3>2. CASE t \in Readers
        <4>1. pc[t] \in ReaderPlaces /\ item'[t] = item[t] /\ (pc'[t] = pc[t] \/ (pc[t] = "sleep" /\ pc'[t] = "lock"))
          BY <3>2, <1>3, <1>7, <1>10 DEF ReaderIs
        <4> QED  BY <4>1 DEF Holds, ReaderPlaces
      <3> QED  BY <3>1, <3>2, GroupIs
    <2> QED  BY <2>1, <1>3, <1>5, PlacedFrame
  <1>17. RootIs(b, n, L)'
    <2>1. CASE new = Bad
      BY <2>1, <1>6, <1>7, <1>8, <1>10, <1>11, <1>14 DEF RootIs, RootPlaces
    <2>2. CASE new # Bad
      BY <2>2, <1>6, <1>7, <1>8, <1>10, <1>11, <1>14 DEF RootIs, RootPlaces
    <2> QED  BY <2>1, <2>2
  <1>18. AllocIs(p, P)'
    BY <1>7 DEF AllocIs
  <1>19. /\ \A t \in Readers : ReaderIs(b, n, L, t)'
         /\ Retiring(b, n)' /\ \A k \in Nat : Gone(k)' = Gone(k)
    <2>1. n >= n /\ Sent' >= Sent /\ (Broken(b, n, L) => n = n /\ Broken(b, n, L)')
      BY <1>4, <1>6, <1>11, <1>14
    <2>2. \A t \in Readers : item'[t] = item[t] /\ key'[t] = key[t] /\ out'[t] = out[t]
      BY <1>10
    <2> QED  BY <2>1, <2>2, <1>1, <1>3, <1>7, <1>13, ReadersKeep
  <1>20. Gone(s + 1) = {} /\ Cardinality(Gone(s + 1)) = 0
    <2>1. ASSUME NEW t \in Readers PROVE ~(Left(t) >= s + 1)
      <3>1. Len(out[t]) <= s
        BY <1>3, <1>4, <1>6, <1>8 DEF ReaderIs
      <3> QED  BY <3>1, <1>6
    <2>2. Gone(s + 1) = {}
      BY <2>1 DEF Gone
    <2> QED  BY <2>2, FS_EmptySet
  <1>21. ItemsAre(b, n, L)'
    <2>1. ASSUME NEW k \in (b + 1)..n, k <= s + 1
          PROVE data[L[k]] = out'[Root][k] /\ avail'[L[k]] = 1 + Cardinality(Gone(k)')
      <3>1. k \in Nat /\ Gone(k)' = Gone(k)
        BY <1>19
      <3>2. CASE k = s + 1
        <4>1. L[k] = e /\ data[L[k]] = v /\ out'[Root][k] = v /\ avail'[L[k]] = 1
          BY <3>2, <1>4, <1>8, <1>11, <1>12
        <4>2. Gone(k)' = Gone(s + 1)
          BY <3>1, <3>2
        <4>3. Cardinality(Gone(k)') = 0
          BY <4>2, <1>20
        <4> QED  BY <4>1, <4>3
      <3>3. CASE k # s + 1
        <4>1. k <= s /\ k \in 1..s /\ L[k] # e /\ L[k] \in Handles
          BY <3>3, <2>1, <1>3, <1>6, <1>8, <1>9 DEF QueueIs
        <4>2. avail'[L[k]] = avail[L[k]] /\ out'[Root][k] = out[Root][k]
          BY <4>1, <1>11, <1>12
        <4> QED  BY <4>1, <4>2, <3>1, <1>3, <1>4 DEF ItemsAre
      <3> QED  BY <3>2, <3>3
    <2>2. ASSUME NEW k \in (b + 1)..n, ~(k <= s + 1) PROVE avail'[L[k]] = 0
      <3>1. ~(k <= s) /\ L[k] # e /\ L[k] \in Handles
        BY <2>2, <1>3, <1>6, <1>8, <1>9 DEF QueueIs
      <3> QED  BY <3>1, <1>3, <1>4, <1>12 DEF ItemsAre
    <2>3. \A k \in 1..(s + 1) : ~(k > n)
      BY <1>6, <1>8
    <2> QED  BY <2>1, <2>2, <2>3, <1>5, <1>11 DEF ItemsAre
  <1>22. InvFor(b, n, L, p, P)'
    BY <1>14, <1>15, <1>16, <1>17, <1>18, <1>19, <1>21 DEF InvFor
  <1> QED  BY <1>13, <1>22 DEF BInv

----------------------------------------------------------------------------
(* The readers. *)

\* A reader's step that leaves the queue and the pool alone.
LEMMA ReaderMoves ==
  ASSUME TypeOK, TypeOK', NEW b \in Nat, NEW n \in Nat, NEW p \in Nat, NEW L, NEW P, InvFor(b, n, L, p, P),
         NEW t \in Readers,
         UNCHANGED <<avail, data, first, free, made, new, link>>,
         \A u \in Nodes : u # t => pc'[u] = pc[u] /\ item'[u] = item[u] /\ key'[u] = key[u] /\ out'[u] = out[u],
         pc[t] # "retire", pc'[t] # "retire",
         Left(t)' = Left(t) \/ (Left(t) >= n /\ Left(t)' >= n),
         \A h \in Handles : next'[h] = next[h] \/ Holds(t, h),
         \A h \in Handles : Holds(t, h)' <=> Holds(t, h),
         (Broken(b, n, L)' <=> Broken(b, n, L)) => ReaderIs(b, n, L, t)'
  PROVE  InvFor(b, n, L, p, P)'
  <1>1. /\ QueueIs(b, n, L) /\ PoolIs(p, P) /\ Placed(b, n, L, p, P) /\ ItemsAre(b, n, L)
        /\ RootIs(b, n, L) /\ AllocIs(p, P) /\ Retiring(b, n)
        /\ \A u \in Readers : ReaderIs(b, n, L, u)
    BY DEF InvFor
  <1>2. /\ made \in Nat /\ made <= MaxHandles /\ made' = made /\ MaxHandles \in Nat
        /\ Root \in Nodes /\ t \in Nodes /\ t # Root /\ Readers \subseteq Nodes
        /\ \A u \in Readers : Left(u) \in Int /\ Left(u)' \in Int
    <2>1. \A u \in Nodes : Left(u)' \in Int
      BY DEF TypeOK, Left
    <2> QED  BY <2>1, NumbersAre, GroupIs
  <1>3. \A h \in Handles : InQueue(b, n, L, h) \/ InPool(p, P, h) \/ Holds(Root, h) => next'[h] = next[h]
    BY <1>1, <1>2 DEF Placed
  <1>4. \A k \in (b + 1)..n : L[k] \in Handles /\ InQueue(b, n, L, L[k])
    BY <1>1, <1>2 DEF QueueIs, Handles, InQueue
  <1>5. \A i \in 1..p : P[i] \in Handles /\ InPool(p, P, P[i])
    BY <1>1, <1>2 DEF PoolIs, Handles, InPool
  <1>6. QueueIs(b, n, L)' /\ (Broken(b, n, L)' <=> Broken(b, n, L))
    <2>1. \A k \in (b + 1)..n : next'[L[k]] = next[L[k]]
      BY <1>3, <1>4
    <2> QED  BY <2>1, <1>1, <1>2, QueueFrame
  <1>7. PoolIs(p, P)'
    <2>1. \A i \in 1..p : next'[P[i]] = next[P[i]]
      BY <1>3, <1>5
    <2> QED  BY <2>1, <1>1, <1>2, PoolFrame
  <1>8. Placed(b, n, L, p, P)'
    <2>1. \A u \in Nodes, h \in Handles : Holds(u, h)' <=> Holds(u, h)
      BY DEF Holds
    <2> QED  BY <2>1, <1>1, <1>2, PlacedFrame
  <1>9. Sent' = Sent /\ out'[Root] = out[Root] /\ pc'[Root] = pc[Root] /\ key'[Root] = key[Root] /\ item'[Root] = item[Root]
    BY <1>2 DEF Sent
  <1>10. RootIs(b, n, L)'
    BY <1>1, <1>6, <1>9 DEF RootIs
  <1>11. AllocIs(p, P)'
    <2>1. pc[Root] = "cas" => InPool(p, P, new) /\ link = next[new] /\ next'[new] = next[new]
      BY <1>1, <1>3, <1>5 DEF AllocIs, InPool
    <2>2. pc[Root] \in {"splice", "splice_cas"} =>
            \A h \in Handles : new < h /\ h < new + group_size - 1 => next'[h] = h + 1
      <3> SUFFICES ASSUME pc[Root] \in {"splice", "splice_cas"}, NEW h \in Handles, new < h, h < new + group_size - 1
                   PROVE  next'[h] = h + 1
        OBVIOUS
      <3>1. new \in Nat /\ group_size \in Nat /\ next[h] = h + 1
        BY <1>1, GroupIs DEF AllocIs
      <3>2. Holds(Root, h)
        BY <3>1 DEF Holds, Handles
      <3> QED  BY <3>1, <3>2, <1>3
    <2> QED  BY <2>1, <2>2, <1>1, <1>9 DEF AllocIs, InPool
  <1>12. \A u \in Readers : u # t => Left(u)' = Left(u)
    BY <1>2 DEF Left
  <1>13. ASSUME NEW k \in Nat, k <= n PROVE Gone(k)' = Gone(k)
    <2>1. \A u \in Readers : Left(u)' >= k <=> Left(u) >= k
      BY <1>2, <1>12, <1>13
    <2> QED  BY <2>1 DEF Gone
  <1>14. ItemsAre(b, n, L)'
    <2>1. \A k \in (b + 1)..n : Gone(k)' = Gone(k)
      BY <1>13
    <2> QED  BY <2>1, <1>1, <1>9 DEF ItemsAre
  <1>15. b < n => \A u \in Readers : b < Left(u)' <=> b < Left(u)
    <2>1. b < n => (b < Left(t)' <=> b < Left(t))
      BY <1>2
    <2> QED  BY <2>1, <1>12
  <1>16. Retiring(b, n)'
    <2> SUFFICES ASSUME b < n, \A u \in Readers : b < Left(u)' PROVE \E u \in Readers : pc'[u] = "retire"
      BY DEF Retiring
    <2>1. PICK u \in Readers : pc[u] = "retire"
      BY <1>1, <1>15 DEF Retiring
    <2> QED  BY <2>1, <1>2
  <1>17. ASSUME NEW u \in Readers PROVE ReaderIs(b, n, L, u)'
    <2>1. CASE u = t
      BY <2>1, <1>6
    <2>2. CASE u # t
      <3>1. ReaderIs(b, n, L, u)
        BY <1>1
      <3>2. pc'[u] = pc[u] /\ item'[u] = item[u] /\ key'[u] = key[u] /\ out'[u] = out[u] /\ Left(u)' = Left(u)
        BY <2>2, <1>2, <1>12
      <3>3. pc[u] = "retire" => \A x \in Readers : b < Left(x)' /\ (x # u => pc'[x] # "retire")
        BY <3>1, <1>2, <1>15 DEF ReaderIs
      <3> QED  BY <3>1, <3>2, <3>3, <1>6, <1>9 DEF ReaderIs
    <2> QED  BY <2>1, <2>2
  <1> QED  BY <1>6, <1>7, <1>8, <1>10, <1>11, <1>14, <1>16, <1>17 DEF InvFor

\* A reader finds the item of its round, or that the queue has broken.
LEMMA ReaderEnters ==
  ASSUME BInv, NEW t \in Readers, Enter(t) \/ EnterBad(t)
  PROVE  BInv'
  <1>1. TypeOK /\ \E b, n, p \in Nat, L, P \in [Nat -> Handles] : InvFor(b, n, L, p, P)
    BY DEF BInv
  <1>2. PICK b, n, p \in Nat, L, P \in [Nat -> Handles] : InvFor(b, n, L, p, P)
    BY <1>1
  <1>3. QueueIs(b, n, L) /\ ReaderIs(b, n, L, t)
    BY <1>2 DEF InvFor
  <1>4. t \in Nodes /\ t # Root /\ Len(out[t]) \in Nat /\ Sent \in Nat /\ Left(t) = Len(out[t]) /\ pc[t] = "out"
    BY <1>1, NumbersAre, GroupIs DEF Enter, EnterBad, Goto
  <1>5. PICK cur, l : cur = (IF key[t] = Null THEN first ELSE key[t]) /\ l = Len(out[t])
    OBVIOUS
  <1>6. \/ l < n /\ cur = L[l + 1] /\ cur \in Handles /\ cur # Bad
        \/ n <= l /\ n <= Sent /\ Broken(b, n, L) /\ key[t] = Bad /\ cur = Bad
    <2>1. CASE key[t] = Null /\ l = 0
      <3>1. b = 0 /\ b < n
        BY <2>1, <1>3, <1>4, <1>5 DEF ReaderIs, QueueIs
      <3>2. first = L[1] /\ L[1] \in Handles
        BY <3>1, <1>3 DEF QueueIs
      <3>3. l + 1 = 1 /\ l < n /\ cur = L[1]
        BY <2>1, <3>1, <3>2, <1>5
      <3> QED  BY <3>2, <3>3 DEF Handles, Bad
    <2>2. CASE l < n /\ key[t] = L[l + 1]
      <3>1. L[l + 1] \in Handles
        BY <1>4, <1>5
      <3>2. \A h \in Handles : h # Null /\ h # Bad
        BY DEF Handles, Null, Bad
      <3> QED  BY <2>2, <3>1, <3>2, <1>5
    <2>3. CASE n <= l /\ n <= Sent /\ Broken(b, n, L) /\ key[t] = Bad
      BY <2>3, <1>5 DEF Null, Bad
    <2> QED  BY <2>1, <2>2, <2>3, <1>3, <1>4, <1>5 DEF ReaderIs
  <1>7. CASE Enter(t)
    <2>1. /\ cur # Bad /\ pc' = [pc EXCEPT ![t] = "lock"] /\ item' = [item EXCEPT ![t] = cur] /\ new' = new
          /\ UNCHANGED <<next, avail, data, first, free, made, key, link, fails, spurious, out>>
      BY <1>4, <1>5, <1>7 DEF Enter, Goto, list, bounds
    <2>2. TypeOK'
      BY <1>1, <1>6, <2>1 DEF TypeOK, Places, HandleOrNull
    <2>3. pc'[t] = "lock" /\ item'[t] = cur /\ \A u \in Nodes : u # t => pc'[u] = pc[u] /\ item'[u] = item[u]
      BY <1>1, <1>4, <2>1 DEF TypeOK
    <2>4. Left(t)' = Left(t) /\ Sent' = Sent
      BY <1>4, <2>1, <2>3 DEF Left, Sent
    <2>5. \A h \in Handles : Holds(t, h)' <=> Holds(t, h)
      BY <1>4, <2>3 DEF Holds
    <2>6. ReaderIs(b, n, L, t)'
      BY <1>3, <1>4, <1>5, <1>6, <2>1, <2>3, <2>4 DEF ReaderIs, ReaderPlaces
    <2>7. InvFor(b, n, L, p, P)'
      BY <1>1, <1>2, <1>4, <2>1, <2>2, <2>3, <2>4, <2>5, <2>6, ReaderMoves
    <2> QED  BY <2>2, <2>7 DEF BInv
  <1>8. CASE EnterBad(t)
    <2>1. /\ cur = Bad /\ out' = [out EXCEPT ![t] = Append(@, -1)]
          /\ UNCHANGED <<next, avail, data, first, free, made, key, pc, item, new, link, fails, spurious>>
      BY <1>5, <1>8 DEF EnterBad, Return, list, bounds
    <2>2. out[t] \in Seq(Values) /\ -1 \in Values /\ out'[t] = Append(out[t], -1)
      BY <1>1, <1>4, <2>1 DEF TypeOK, Values
    <2>3. Append(out[t], -1) \in Seq(Values) /\ Len(out'[t]) = l + 1
      BY <2>2, <1>5
    <2>4. TypeOK'
      BY <2>3, <1>1, <2>1 DEF TypeOK
    <2>5. \A u \in Nodes : u # t => out'[u] = out[u]
      BY <1>1, <2>1 DEF TypeOK
    <2>6. Left(t)' = l + 1 /\ Left(t) = l /\ Sent' = Sent
      BY <1>4, <1>5, <2>1, <2>3, <2>5, GroupIs DEF Left, Sent
    <2>7. n <= l /\ n <= Sent /\ Broken(b, n, L) /\ key[t] = Bad
      BY <1>6, <2>1
    <2>8. b <= l + 1 /\ n <= l + 1
      BY <2>7, <1>3, <1>4, <1>5 DEF QueueIs
    <2>9. (Broken(b, n, L)' <=> Broken(b, n, L)) => ReaderIs(b, n, L, t)'
      BY <1>4, <2>1, <2>3, <2>6, <2>7, <2>8 DEF ReaderIs, ReaderPlaces
    <2>10. \A h \in Handles : Holds(t, h)' <=> Holds(t, h)
      BY <2>1 DEF Holds
    <2>11. Left(t) >= n /\ Left(t)' >= n
      BY <2>6, <2>7, <1>4, <1>5
    <2>12. InvFor(b, n, L, p, P)'
      BY <1>1, <1>2, <1>4, <2>1, <2>4, <2>5, <2>9, <2>10, <2>11, ReaderMoves
    <2> QED  BY <2>4, <2>12 DEF BInv
  <1> QED  BY <1>7, <1>8

\* A reader waits for its item, or goes on when it is available.
LEMMA ReaderWaits ==
  ASSUME BInv, NEW t \in Readers, Sleep(t) \/ SpuriousWakeup(t) \/ SeeAvail(t)
  PROVE  BInv'
  <1>1. TypeOK /\ \E b, n, p \in Nat, L, P \in [Nat -> Handles] : InvFor(b, n, L, p, P)
    BY DEF BInv
  <1>2. PICK b, n, p \in Nat, L, P \in [Nat -> Handles] : InvFor(b, n, L, p, P)
    BY <1>1
  <1>3. QueueIs(b, n, L) /\ ReaderIs(b, n, L, t) /\ ItemsAre(b, n, L)
    BY <1>2 DEF InvFor
  <1>4. PICK l : /\ l \in {"sleep", "lock", "copy"} /\ pc' = [pc EXCEPT ![t] = l]
                 /\ pc[t] \in {"sleep", "lock"} /\ (l = "copy" => avail[item[t]] # 0)
    BY DEF Sleep, SpuriousWakeup, SeeAvail, Goto
  <1>5. /\ UNCHANGED <<next, avail, data, first, free, made, key, item, new, link, fails, out>>
        /\ spurious' \in 0..MaxSpurious
    <2>1. spurious \in 0..MaxSpurious /\ MaxSpurious \in Nat
      BY <1>1, BoundsAssumption DEF TypeOK
    <2> QED  BY <2>1 DEF Sleep, SpuriousWakeup, SeeAvail, list, bounds
  <1>6. t \in Nodes /\ Len(out[t]) \in Nat /\ Sent \in Nat /\ Left(t) = Len(out[t])
    BY <1>1, <1>4, NumbersAre, GroupIs
  <1>7. pc'[t] = l /\ pc' \in [Nodes -> Places] /\ \A u \in Nodes : u # t => pc'[u] = pc[u]
    BY <1>1, <1>4, <1>6 DEF TypeOK, Places
  <1>8. TypeOK'
    BY <1>1, <1>5, <1>7 DEF TypeOK
  <1>9. Left(t)' = Left(t) /\ Sent' = Sent
    BY <1>4, <1>5, <1>6, <1>7 DEF Left, Sent
  <1>10. \A h \in Handles : Holds(t, h)' <=> Holds(t, h)
    BY <1>4, <1>7 DEF Holds
  <1>11. l = "copy" => Len(out[t]) < Sent
    <2> SUFFICES ASSUME l = "copy", ~(Len(out[t]) < Sent) PROVE FALSE
      OBVIOUS
    <2>1. PICK k : k = Len(out[t]) + 1
      OBVIOUS
    <2>2. k \in (b + 1)..n /\ ~(k <= Sent) /\ item[t] = L[k]
      BY <2>1, <1>3, <1>4, <1>6 DEF ReaderIs
    <2> QED  BY <2>2, <1>3, <1>4 DEF ItemsAre
  <1>12. ReaderIs(b, n, L, t)'
    BY <1>3, <1>4, <1>5, <1>7, <1>9, <1>11 DEF ReaderIs, ReaderPlaces
  <1>13. InvFor(b, n, L, p, P)'
    BY <1>1, <1>2, <1>4, <1>5, <1>7, <1>8, <1>9, <1>10, <1>12, ReaderMoves
  <1> QED  BY <1>8, <1>13 DEF BInv

\* An item that the root has completed has a successor, or the queue ends behind it for good.
LEMMA NextOfItem ==
  ASSUME TypeOK, NEW b \in Nat, NEW n \in Nat, NEW L, QueueIs(b, n, L), RootIs(b, n, L),
         NEW k \in (b + 1)..n, k <= Sent
  PROVE  \/ k < n /\ next[L[k]] = L[k + 1]
         \/ k = n /\ n <= Sent /\ Broken(b, n, L) /\ next[L[k]] = Bad
  <1>1. Sent \in Nat
    BY NumbersAre
  <1>2. CASE k < n
    BY <1>2 DEF QueueIs
  <1>3. CASE k = n
    <2>1. Broken(b, n, L)
      BY <1>1, <1>3 DEF RootIs
    <2> QED  BY <2>1, <1>3 DEF Broken
  <1> QED  BY <1>2, <1>3

\* A reader takes the data, and what follows the item as the place to go on from.
LEMMA CopyStep ==
  ASSUME BInv, NEW t \in Readers, Copy(t)
  PROVE  BInv'
  <1>1. TypeOK /\ \E b, n, p \in Nat, L, P \in [Nat -> Handles] : InvFor(b, n, L, p, P)
    BY DEF BInv
  <1>2. PICK b, n, p \in Nat, L, P \in [Nat -> Handles] : InvFor(b, n, L, p, P)
    BY <1>1
  <1>3. QueueIs(b, n, L) /\ ReaderIs(b, n, L, t) /\ RootIs(b, n, L)
    BY <1>2 DEF InvFor
  <1>4. PICK e, k : e = item[t] /\ k = Len(out[t]) + 1
    OBVIOUS
  <1>5. /\ pc[t] = "copy" /\ pc' = [pc EXCEPT ![t] = "leave"] /\ key' = [key EXCEPT ![t] = next[e]]
        /\ out' = [out EXCEPT ![t] = Append(@, data[e])]
        /\ UNCHANGED <<next, avail, data, first, free, made, item, new, link, fails, spurious>>
    BY <1>4 DEF Copy, Goto, Return, list, bounds
  <1>6. t \in Nodes /\ Root # t /\ Len(out[t]) \in Nat /\ Sent \in Nat /\ Left(t) = Len(out[t])
    BY <1>1, <1>5, NumbersAre, GroupIs
  <1>7. k \in (b + 1)..n /\ k <= Sent /\ e = L[k] /\ k \in Nat /\ e \in Handles
    BY <1>3, <1>4, <1>5, <1>6 DEF ReaderIs
  <1>8. /\ pc'[t] = "leave" /\ key'[t] = next[e] /\ out'[t] = Append(out[t], data[e])
        /\ \A u \in Nodes : u # t => pc'[u] = pc[u] /\ key'[u] = key[u] /\ out'[u] = out[u]
    BY <1>1, <1>5, <1>6 DEF TypeOK
  <1>9. out[t] \in Seq(Values) /\ data[e] \in Values /\ next[e] \in HandleOrNull \cup {Bad}
    BY <1>1, <1>6, <1>7 DEF TypeOK
  <1>10. Append(out[t], data[e]) \in Seq(Values) /\ Len(out'[t]) = k
    BY <1>4, <1>8, <1>9
  <1>11. TypeOK'
    <2>1. out' \in [Nodes -> Seq(Values)] /\ key' \in [Nodes -> HandleOrNull \cup {Bad}] /\ pc' \in [Nodes -> Places]
      BY <1>1, <1>5, <1>9, <1>10 DEF TypeOK, Places
    <2> QED  BY <2>1, <1>1, <1>5 DEF TypeOK
  <1>12. Left(t)' = Left(t) /\ Sent' = Sent
    BY <1>4, <1>6, <1>8, <1>10, GroupIs DEF Left, Sent
  <1>13. \A h \in Handles : Holds(t, h)' <=> Holds(t, h)
    BY <1>5, <1>8 DEF Holds
  <1>14. \/ k < n /\ next[e] = L[k + 1]
         \/ k = n /\ n <= Sent /\ Broken(b, n, L) /\ next[e] = Bad
    BY <1>1, <1>3, <1>7, NextOfItem
  <1>15. b <= Left(t)' /\ b < k /\ k <= n
    BY <1>3, <1>6, <1>7, <1>12 DEF ReaderIs
  <1>16. \/ k < n /\ key'[t] = L[k + 1]
         \/ n <= k /\ n <= Sent' /\ Broken(b, n, L) /\ key'[t] = Bad
    BY <1>8, <1>12, <1>14, <1>15
  <1>17. (Broken(b, n, L)' <=> Broken(b, n, L)) => ReaderIs(b, n, L, t)'
    <2>1. k <= Sent' /\ item'[t] = L[k]
      BY <1>4, <1>5, <1>7, <1>12
    <2> QED  BY <2>1, <1>8, <1>10, <1>15, <1>16 DEF ReaderIs, ReaderPlaces
  <1>18. InvFor(b, n, L, p, P)'
    BY <1>1, <1>2, <1>5, <1>8, <1>11, <1>12, <1>13, <1>17, ReaderMoves
  <1> QED  BY <1>11, <1>18 DEF BInv

\* A reader leaves an item.  The last one to do so finds the count at the size of the group,
\* and that item is the first of the queue, for an earlier one would still be in use.
LEMMA LeaveStep ==
  ASSUME BInv, NEW t \in Readers, Leave(t)
  PROVE  BInv'
  <1>1. TypeOK /\ \E b, n, p \in Nat, L, P \in [Nat -> Handles] : InvFor(b, n, L, p, P)
    BY DEF BInv
  <1>2. PICK b, n, p \in Nat, L, P \in [Nat -> Handles] : InvFor(b, n, L, p, P)
    BY <1>1
  <1>3. /\ QueueIs(b, n, L) /\ PoolIs(p, P) /\ RootIs(b, n, L) /\ AllocIs(p, P) /\ Placed(b, n, L, p, P)
        /\ ItemsAre(b, n, L) /\ Retiring(b, n)
        /\ \A u \in Readers : ReaderIs(b, n, L, u)
    BY <1>2 DEF InvFor
  <1>4. PICK e, k, G : e = item[t] /\ k = Len(out[t]) /\ G = Gone(k)
    OBVIOUS
  <1>5. /\ pc[t] = "leave"
        /\ pc' = [pc EXCEPT ![t] = IF avail[e] + 1 = group_size THEN "retire" ELSE "out"]
        /\ avail' = [avail EXCEPT ![e] = @ + 1]
        /\ UNCHANGED <<next, data, first, free, made, key, item, new, link, fails, spurious, out>>
    BY <1>4 DEF Leave, Goto, bounds
  <1>6. /\ t \in Nodes /\ Root # t /\ Root \in Nodes /\ Readers \subseteq Nodes /\ Sent \in Nat /\ Sent' = Sent
        /\ made \in Nat /\ made <= MaxHandles /\ MaxHandles \in Nat
        /\ group_size = Cardinality(Readers) + 1 /\ Cardinality(Readers) \in Nat
        /\ \A u \in Readers : Len(out[u]) \in Nat /\ Left(u) \in Int
    BY <1>1, <1>5, NumbersAre, GroupIs DEF Sent
  <1>7. b < k /\ k <= n /\ k <= Sent /\ e = L[k] /\ k \in (b + 1)..n /\ e \in Handles /\ k \in Nat
    BY <1>3, <1>4, <1>5, <1>6 DEF ReaderIs
  <1>8. /\ pc' \in [Nodes -> Places] /\ pc'[t] = (IF avail[e] + 1 = group_size THEN "retire" ELSE "out")
        /\ \A u \in Nodes : u # t => pc'[u] = pc[u]
    BY <1>1, <1>5, <1>6 DEF TypeOK, Places
  <1>9. Left(t) = k - 1 /\ Left(t)' = k /\ \A u \in Readers : u # t => Left(u)' = Left(u)
    BY <1>4, <1>5, <1>6, <1>8 DEF Left
  <1>10. G \subseteq Readers /\ t \notin G /\ Gone(k)' = G \cup {t}
    <2>1. G \subseteq Readers /\ t \notin G
      BY <1>4, <1>7, <1>9 DEF Gone
    <2>2. \A u \in Readers : Left(u)' >= k <=> Left(u) >= k \/ u = t
      BY <1>6, <1>7, <1>9
    <2> QED  BY <2>1, <2>2, <1>4 DEF Gone
  <1>11. ASSUME NEW j \in Nat, j # k PROVE Gone(j)' = Gone(j)
    <2>1. \A u \in Readers : Left(u)' >= j <=> Left(u) >= j
      BY <1>6, <1>7, <1>9, <1>11
    <2> QED  BY <2>1 DEF Gone
  <1>12. /\ Cardinality(G) \in Nat /\ Cardinality(G \cup {t}) = Cardinality(G) + 1
         /\ Cardinality(G \cup {t}) <= Cardinality(Readers)
         /\ Cardinality(G \cup {t}) = Cardinality(Readers) <=> G \cup {t} = Readers
    <2>1. G \in SUBSET Readers /\ G \cup {t} \in SUBSET Readers
      BY <1>10
    <2> QED  BY <2>1, <1>10, GoneIs
  <1>13. avail[e] = 1 + Cardinality(G)
    BY <1>3, <1>4, <1>7 DEF ItemsAre
  <1>14. avail[e] + 1 \in 0..group_size /\ (avail[e] + 1 = group_size <=> G \cup {t} = Readers)
    BY <1>6, <1>12, <1>13
  <1>15. /\ avail' \in [Handles -> 0..group_size] /\ avail'[e] = 1 + Cardinality(G \cup {t})
         /\ \A x \in Handles : x # e => avail'[x] = avail[x]
    <2>1. avail \in [Handles -> 0..group_size]
      BY <1>1 DEF TypeOK
    <2>2. avail'[e] = avail[e] + 1
      BY <2>1, <1>5, <1>7
    <2>3. avail' \in [Handles -> 0..group_size] /\ \A x \in Handles : x # e => avail'[x] = avail[x]
      BY <2>1, <1>5, <1>7, <1>14
    <2> QED  BY <2>2, <2>3, <1>12, <1>13
  <1>16. TypeOK'
    BY <1>1, <1>5, <1>8, <1>15 DEF TypeOK
  <1>17. QueueIs(b, n, L)' /\ (Broken(b, n, L)' <=> Broken(b, n, L))
    BY <1>3, <1>5, <1>6, QueueFrame
  <1>18. PoolIs(p, P)'
    BY <1>3, <1>5, <1>6, PoolFrame
  <1>19. Placed(b, n, L, p, P)'
    <2>1. \A u \in Nodes, h \in Handles : Holds(u, h)' <=> Holds(u, h)
      BY <1>5, <1>8 DEF Holds
    <2> QED  BY <2>1, <1>3, <1>5, PlacedFrame
  <1>20. RootIs(b, n, L)' /\ AllocIs(p, P)'
    <2>1. pc'[Root] = pc[Root]
      BY <1>6, <1>8
    <2> QED  BY <2>1, <1>3, <1>5, <1>6, <1>17 DEF RootIs, AllocIs, InPool
  <1>21. ItemsAre(b, n, L)'
    <2>1. ASSUME NEW j \in (b + 1)..n, j <= Sent PROVE data[L[j]] = out[Root][j] /\ avail'[L[j]] = 1 + Cardinality(Gone(j)')
      <3>1. data[L[j]] = out[Root][j] /\ avail[L[j]] = 1 + Cardinality(Gone(j))
        BY <2>1, <1>3 DEF ItemsAre
      <3>2. CASE j = k
        BY <3>1, <3>2, <1>7, <1>10, <1>15
      <3>3. CASE j # k
        <4>1. L[j] # e /\ L[j] \in Handles /\ j \in Nat
          BY <3>3, <1>3, <1>7 DEF QueueIs
        <4> QED  BY <4>1, <3>1, <3>3, <1>11, <1>15
      <3> QED  BY <3>2, <3>3
    <2>2. ASSUME NEW j \in (b + 1)..n, ~(j <= Sent) PROVE avail'[L[j]] = 0
      <3>1. L[j] # e /\ L[j] \in Handles
        BY <2>2, <1>3, <1>7 DEF QueueIs
      <3> QED  BY <3>1, <2>2, <1>3, <1>15 DEF ItemsAre
    <2> QED  BY <2>1, <2>2, <1>3, <1>5, <1>6 DEF ItemsAre
  <1>22. ASSUME pc'[t] = "retire"
         PROVE  /\ k = b + 1 /\ \A u \in Readers : b < Left(u)' /\ pc[u] # "retire"
    <2>1. \A u \in Readers : Left(u)' >= k
      <3>1. Gone(k)' = Readers
        BY <1>8, <1>10, <1>14, <1>22
      <3> QED  BY <3>1 DEF Gone
    <2>2. ASSUME NEW u \in Readers, pc[u] = "retire" PROVE FALSE
      <3>1. b < Left(t) /\ Len(out[u]) = b + 1 /\ Left(u) = b + 1 /\ u # t
        BY <2>2, <1>3, <1>5 DEF ReaderIs, Left
      <3>2. Left(u) >= k
        BY <3>1, <2>1, <1>9
      <3> QED  BY <3>1, <3>2, <1>7, <1>9
    <2>3. \A u \in Readers : b < Left(u)'
      <3>1. \A u \in Readers : Left(u)' \in Int
        BY <1>6, <1>7, <1>9
      <3> QED  BY <3>1, <2>1, <1>7
    <2>4. k = b + 1
      <3> SUFFICES ASSUME k # b + 1 PROVE FALSE
        OBVIOUS
      <3>1. b < Left(t) /\ b < n
        BY <1>7, <1>9
      <3>2. \A u \in Readers : b < Left(u)
        BY <3>1, <2>3, <1>9
      <3> QED  BY <3>1, <3>2, <2>2, <1>3 DEF Retiring
    <2> QED  BY <2>2, <2>3, <2>4
  <1>23. Retiring(b, n)'
    <2> SUFFICES ASSUME b < n, \A u \in Readers : b < Left(u)' PROVE \E u \in Readers : pc'[u] = "retire"
      BY DEF Retiring
    <2>1. CASE k = b + 1
      <3>1. \A u \in Readers : Left(u)' >= k
        <4>1. \A u \in Readers : Left(u)' \in Int
          BY <1>6, <1>7, <1>9
        <4> QED  BY <4>1, <2>1
      <3>2. Gone(k)' = Readers
        BY <3>1 DEF Gone
      <3> QED  BY <3>2, <1>8, <1>10, <1>14
    <2>2. CASE k # b + 1
      <3>1. b < Left(t)
        BY <2>2, <1>7, <1>9
      <3>2. \A u \in Readers : b < Left(u)
        BY <3>1, <1>9
      <3>3. PICK u \in Readers : pc[u] = "retire"
        BY <3>2, <1>3 DEF Retiring
      <3> QED  BY <3>3, <1>5, <1>6, <1>8
    <2> QED  BY <2>1, <2>2
  <1>24. ASSUME NEW u \in Readers PROVE ReaderIs(b, n, L, u)'
    <2>1. ReaderIs(b, n, L, u)
      BY <1>3
    <2>2. CASE u = t
      <3>1. pc'[t] \in {"out", "retire"}
        BY <1>8
      <3>2. b <= Left(t)' /\ (Len(out[t]) <= Sent \/ n <= Sent)
        BY <1>4, <1>7, <1>9
      <3>3. \/ key[t] = Null /\ Len(out[t]) = 0
            \/ Len(out[t]) < n /\ key[t] = L[Len(out[t]) + 1]
            \/ n <= Len(out[t]) /\ n <= Sent /\ Broken(b, n, L) /\ key[t] = Bad
        BY <2>1, <2>2, <1>5 DEF ReaderIs
      <3>4. pc'[t] = "retire" => /\ b < n /\ Len(out[t]) = b + 1 /\ b < Sent /\ item[t] = L[b + 1]
                                 /\ \A x \in Readers : b < Left(x)' /\ (x # t => pc'[x] # "retire")
        BY <1>4, <1>6, <1>7, <1>8, <1>22
      <3> QED  BY <2>2, <3>1, <3>2, <3>3, <3>4, <1>5, <1>6, <1>17 DEF ReaderIs, ReaderPlaces
    <2>3. CASE u # t
      <3>1. pc'[u] = pc[u] /\ Left(u)' = Left(u)
        BY <2>3, <1>6, <1>8, <1>9
      <3>2. pc[u] = "retire" => \A x \in Readers : b < Left(x)' /\ (x # u => pc'[x] # "retire")
        <4> SUFFICES ASSUME pc[u] = "retire", NEW x \in Readers PROVE b < Left(x)' /\ (x # u => pc'[x] # "retire")
          OBVIOUS
        <4>1. b < Left(x) /\ (x # u => pc[x] # "retire")
          BY <2>1 DEF ReaderIs
        <4>2. pc'[t] # "retire"
          BY <1>22
        <4> QED  BY <4>1, <4>2, <1>6, <1>7, <1>8, <1>9
      <3> QED  BY <2>1, <3>1, <3>2, <1>5, <1>6, <1>17 DEF ReaderIs
    <2> QED  BY <2>2, <2>3
  <1>25. InvFor(b, n, L, p, P)'
    BY <1>17, <1>18, <1>19, <1>20, <1>21, <1>23, <1>24 DEF InvFor
  <1> QED  BY <1>16, <1>25 DEF BInv

\* The last reader takes the item off the queue.
LEMMA RetireStep ==
  ASSUME BInv, NEW t \in Readers, Retire(t)
  PROVE  BInv'
  <1>1. TypeOK /\ \E b, n, p \in Nat, L, P \in [Nat -> Handles] : InvFor(b, n, L, p, P)
    BY DEF BInv
  <1>2. PICK b, n, p \in Nat, L, P \in [Nat -> Handles] : InvFor(b, n, L, p, P)
    BY <1>1
  <1>3. /\ QueueIs(b, n, L) /\ PoolIs(p, P) /\ RootIs(b, n, L) /\ AllocIs(p, P) /\ Placed(b, n, L, p, P)
        /\ ItemsAre(b, n, L) /\ ReaderIs(b, n, L, t)
        /\ \A u \in Readers : ReaderIs(b, n, L, u)
    BY <1>2 DEF InvFor
  <1>4. PICK e, c : e = item[t] /\ c = b + 1
    OBVIOUS
  <1>5. /\ pc[t] = "retire" /\ pc' = [pc EXCEPT ![t] = "push"]
        /\ data' = [data EXCEPT ![e] = IF @ = NoMemory THEN @ ELSE Freed] /\ first' = next[e]
        /\ UNCHANGED <<next, avail, free, made, key, item, new, link, fails, spurious, out>>
    BY <1>4 DEF Retire, Goto, bounds
  <1>6. /\ t \in Nodes /\ Root # t /\ Root \in Nodes /\ Readers \subseteq Nodes /\ Sent \in Nat /\ Sent' = Sent
        /\ made \in Nat /\ made <= MaxHandles /\ MaxHandles \in Nat
        /\ \A u \in Readers : Len(out[u]) \in Nat /\ Left(u) \in Int
    BY <1>1, <1>5, NumbersAre, GroupIs DEF Sent
  <1>7. /\ c \in Nat /\ c <= n /\ Len(out[t]) = c /\ c <= Sent /\ e = L[c] /\ c \in (b + 1)..n /\ e \in Handles
        /\ \A u \in Readers : b < Left(u) /\ (u # t => pc[u] # "retire")
    BY <1>3, <1>4, <1>5, <1>6 DEF ReaderIs
  <1>8. pc' \in [Nodes -> Places] /\ pc'[t] = "push" /\ \A u \in Nodes : u # t => pc'[u] = pc[u]
    BY <1>1, <1>5, <1>6 DEF TypeOK, Places
  <1>9. data' \in [Handles -> Values] /\ \A x \in Handles : x # e => data'[x] = data[x]
    <2>1. data \in [Handles -> Values] /\ Freed \in Values /\ data[e] \in Values
      BY <1>1, <1>7 DEF TypeOK, Values
    <2> QED  BY <2>1, <1>5, <1>7
  <1>10. \/ c < n /\ next[e] = L[c + 1]
         \/ c = n /\ n <= Sent /\ Broken(b, n, L) /\ next[e] = Bad
    BY <1>1, <1>3, <1>7, NextOfItem
  <1>11. TypeOK'
    <2>1. next[e] \in Handles \cup {Bad}
      BY <1>7, <1>10
    <2> QED  BY <2>1, <1>1, <1>5, <1>8, <1>9 DEF TypeOK
  <1>12. /\ b <= c /\ c # b /\ (b + 1)..n = {c} \cup (c + 1)..n
         /\ \A k \in (c + 1)..n : k \in (b + 1)..n /\ L[k] # e /\ L[k] \in Handles
    <2>1. \A k \in (c + 1)..n : k \in (b + 1)..n /\ k # c
      BY <1>4, <1>7
    <2>2. \A k \in (b + 1)..n : k = c \/ k \in (c + 1)..n
      BY <1>4, <1>7
    <2>3. (b + 1)..n = {c} \cup (c + 1)..n
      BY <2>1, <2>2, <1>7
    <2> QED  BY <2>1, <2>3, <1>3, <1>4, <1>7 DEF QueueIs
  <1>13. QueueIs(c, n, L)' /\ (Broken(c, n, L)' <=> Broken(b, n, L))
    <2>1. /\ \A k \in (c + 1)..n : L[k] \in 0..(made - 1)
          /\ \A i, j \in (c + 1)..n : L[i] = L[j] => i = j
      BY <1>3, <1>12 DEF QueueIs
    <2>2. \A k \in (c + 1)..(n - 1) : k \in (b + 1)..(n - 1)
      BY <1>4, <1>7
    <2>3. \A k \in (c + 1)..(n - 1) : next[L[k]] = L[k + 1]
      BY <2>2, <1>3 DEF QueueIs
    <2>4. CASE c < n
      <3>1. first' = L[c + 1] /\ next[L[n]] \in {Null, Bad} /\ b < n /\ 1 <= n
        BY <2>4, <1>3, <1>4, <1>5, <1>7, <1>10 DEF QueueIs
      <3>2. c # n /\ b # n
        BY <2>4, <3>1, <1>7
      <3> QED  BY <2>1, <2>3, <2>4, <3>1, <3>2, <1>5, <1>7 DEF QueueIs, Broken
    <2>5. CASE c = n
      <3>1. first' = Bad /\ Broken(b, n, L) /\ 1 <= n
        BY <2>5, <1>3, <1>5, <1>7, <1>10 DEF QueueIs
      <3> QED  BY <2>1, <2>3, <2>5, <3>1, <1>5, <1>7 DEF QueueIs, Broken
    <2> QED  BY <2>4, <2>5, <1>7
  <1>14. PoolIs(p, P)'
    BY <1>3, <1>5, <1>6, PoolFrame
  <1>15. \A h \in Handles : (InQueue(b, n, L, h) <=> InQueue(c, n, L, h) \/ h = e) /\ ~(InQueue(c, n, L, h) /\ h = e)
    BY <1>7, <1>12 DEF InQueue
  <1>16. Placed(c, n, L, p, P)'
    <2> SUFFICES ASSUME NEW h \in Handles
                 PROVE  /\ h < made <=> InQueue(c, n, L, h) \/ InPool(p, P, h) \/ \E u \in Nodes : Holds(u, h)'
                        /\ ~(InQueue(c, n, L, h) /\ InPool(p, P, h))
                        /\ \A u \in Nodes : Holds(u, h)' =>
                             /\ ~InQueue(c, n, L, h) /\ ~InPool(p, P, h)
                             /\ \A x \in Nodes : x # u => ~Holds(x, h)'
      BY <1>5 DEF Placed, InQueue, InPool
    <2>1. /\ h < made <=> InQueue(b, n, L, h) \/ InPool(p, P, h) \/ \E u \in Nodes : Holds(u, h)
          /\ ~(InQueue(b, n, L, h) /\ InPool(p, P, h))
          /\ \A u \in Nodes : Holds(u, h) =>
               /\ ~InQueue(b, n, L, h) /\ ~InPool(p, P, h)
               /\ \A x \in Nodes : x # u => ~Holds(x, h)
      BY <1>3 DEF Placed
    <2>2. /\ ~Holds(t, h)
          /\ Holds(t, h)' <=> h = e
          /\ \A u \in Nodes : u # t => (Holds(u, h)' <=> Holds(u, h))
      BY <1>4, <1>5, <1>8 DEF Holds
    <2>3. (InQueue(b, n, L, h) <=> InQueue(c, n, L, h) \/ h = e) /\ ~(InQueue(c, n, L, h) /\ h = e)
      BY <1>15
    <2>4. CASE h = e
      BY <2>1, <2>2, <2>3, <2>4, <1>6
    <2>5. CASE h # e
      BY <2>1, <2>2, <2>3, <2>5, <1>6
    <2> QED  BY <2>4, <2>5
  <1>17. RootIs(c, n, L)' /\ AllocIs(p, P)'
    <2>1. pc'[Root] = pc[Root]
      BY <1>6, <1>8
    <2> QED  BY <2>1, <1>3, <1>5, <1>6, <1>7, <1>13 DEF RootIs, AllocIs, InPool
  <1>18. \A u \in Readers : Left(u)' = Left(u) /\ c <= Left(u)
    <2>1. \A u \in Readers : Left(u)' = Left(u)
      BY <1>5, <1>6, <1>8 DEF Left
    <2> QED  BY <2>1, <1>4, <1>6, <1>7
  <1>19. \A k \in Nat : Gone(k)' = Gone(k)
    BY <1>18 DEF Gone
  <1>20. ItemsAre(c, n, L)'
    <2>1. \A k \in (c + 1)..n : Gone(k)' = Gone(k) /\ data'[L[k]] = data[L[k]]
      BY <1>9, <1>12, <1>19
    <2> QED  BY <2>1, <1>3, <1>5, <1>6, <1>12 DEF ItemsAre
  <1>21. Retiring(c, n)'
    <2>1. Left(t)' = c
      BY <1>5, <1>7, <1>8 DEF Left
    <2> QED  BY <2>1, <1>7 DEF Retiring
  <1>22. ASSUME NEW u \in Readers PROVE ReaderIs(c, n, L, u)'
    <2>1. ReaderIs(b, n, L, u)
      BY <1>3
    <2>2. CASE u = t
      BY <2>1, <2>2, <1>5, <1>6, <1>8, <1>13, <1>18 DEF ReaderIs, ReaderPlaces
    <2>3. CASE u # t
      <3>1. pc'[u] = pc[u] /\ Left(u)' = Left(u) /\ c <= Left(u) /\ pc[u] # "retire"
        BY <2>3, <1>6, <1>7, <1>8, <1>18
      <3>2. pc[u] = "leave" => c < Len(out[u])
        BY <3>1, <1>6, <1>7 DEF Left
      <3> QED  BY <2>1, <3>1, <3>2, <1>5, <1>6, <1>13 DEF ReaderIs
    <2> QED  BY <2>2, <2>3
  <1>23. InvFor(c, n, L, p, P)'
    BY <1>13, <1>14, <1>16, <1>17, <1>20, <1>21, <1>22 DEF InvFor
  <1> QED  BY <1>7, <1>11, <1>23 DEF BInv

\* A reader prepares to give the item back: nobody else has it in hand.
LEMMA PushStep ==
  ASSUME BInv, NEW t \in Readers, PushNext(t) \/ PushRetry(t)
  PROVE  BInv'
  <1>1. TypeOK /\ \E b, n, p \in Nat, L, P \in [Nat -> Handles] : InvFor(b, n, L, p, P)
    BY DEF BInv
  <1>2. PICK b, n, p \in Nat, L, P \in [Nat -> Handles] : InvFor(b, n, L, p, P)
    BY <1>1
  <1>3. ReaderIs(b, n, L, t) /\ t \in Nodes
    BY <1>2, GroupIs DEF InvFor
  <1>4. PICK l : /\ l \in {"push", "push_cas"} /\ pc' = [pc EXCEPT ![t] = l] /\ pc[t] \in {"push", "push_cas"}
    BY DEF PushNext, PushRetry, Goto
  <1>5. /\ UNCHANGED <<avail, data, first, free, made, key, item, new, link, fails, spurious, out>>
        /\ next' = next \/ next' = [next EXCEPT ![item[t]] = free]
    BY DEF PushNext, PushRetry, list, bounds
  <1>6. pc'[t] = l /\ pc' \in [Nodes -> Places] /\ \A u \in Nodes : u # t => pc'[u] = pc[u]
    BY <1>1, <1>3, <1>4 DEF TypeOK, Places
  <1>7. next' \in [Handles -> HandleOrNull \cup {Bad}] /\ \A h \in Handles : next'[h] = next[h] \/ h = item[t]
    <2>1. next \in [Handles -> HandleOrNull \cup {Bad}] /\ free \in HandleOrNull \cup {Bad}
      BY <1>1 DEF TypeOK
    <2>2. CASE next' = next
      BY <2>1, <2>2
    <2>3. CASE next' = [next EXCEPT ![item[t]] = free]
      BY <2>1, <2>3
    <2> QED  BY <2>2, <2>3, <1>5
  <1>8. TypeOK'
    BY <1>1, <1>5, <1>6, <1>7 DEF TypeOK
  <1>9. \A h \in Handles : (Holds(t, h)' <=> Holds(t, h)) /\ (next'[h] = next[h] \/ Holds(t, h))
    BY <1>4, <1>5, <1>6, <1>7 DEF Holds
  <1>10. Left(t)' = Left(t) /\ Sent' = Sent
    BY <1>4, <1>5, <1>6 DEF Left, Sent
  <1>11. (Broken(b, n, L)' <=> Broken(b, n, L)) => ReaderIs(b, n, L, t)'
    BY <1>3, <1>4, <1>5, <1>6, <1>10 DEF ReaderIs, ReaderPlaces
  <1>12. InvFor(b, n, L, p, P)'
    BY <1>1, <1>2, <1>4, <1>5, <1>6, <1>8, <1>9, <1>10, <1>11, ReaderMoves
  <1> QED  BY <1>8, <1>12 DEF BInv

\* The item is on top of the pool.
LEMMA PushCasStep ==
  ASSUME BInv, NEW t \in Readers, PushCas(t)
  PROVE  BInv'
  <1>1. TypeOK /\ \E b, n, p \in Nat, L, P \in [Nat -> Handles] : InvFor(b, n, L, p, P)
    BY DEF BInv
  <1>2. PICK b, n, p \in Nat, L, P \in [Nat -> Handles] : InvFor(b, n, L, p, P)
    BY <1>1
  <1>3. /\ QueueIs(b, n, L) /\ PoolIs(p, P) /\ RootIs(b, n, L) /\ AllocIs(p, P) /\ Placed(b, n, L, p, P)
        /\ ItemsAre(b, n, L) /\ Retiring(b, n)
        /\ \A u \in Readers : ReaderIs(b, n, L, u)
    BY <1>2 DEF InvFor
  <1>4. PICK e, q : e = item[t] /\ q = p + 1
    OBVIOUS
  <1>5. /\ pc[t] = "push_cas" /\ pc' = [pc EXCEPT ![t] = "out"] /\ free = next[e] /\ free' = e
        /\ UNCHANGED <<next, avail, data, first, made, key, item, new, link, fails, spurious, out>>
    BY <1>4 DEF PushCas, Goto, list, bounds
  <1>6. /\ t \in Nodes /\ Root # t /\ Root \in Nodes /\ Readers \subseteq Nodes /\ Sent' = Sent
        /\ made \in Nat /\ made <= MaxHandles /\ MaxHandles \in Nat /\ q \in Nat
    BY <1>1, <1>4, <1>5, NumbersAre, GroupIs DEF Sent
  <1>7. pc' \in [Nodes -> Places] /\ pc'[t] = "out" /\ \A u \in Nodes : u # t => pc'[u] = pc[u]
    BY <1>1, <1>5, <1>6 DEF TypeOK, Places
  <1>8. e \in Handles
    BY <1>3, <1>4, <1>5 DEF ReaderIs
  <1>9. TypeOK'
    BY <1>1, <1>5, <1>7, <1>8 DEF TypeOK, HandleOrNull
  <1>10. \A h \in Handles : /\ Holds(t, h) <=> h = e
                            /\ ~Holds(t, h)'
                            /\ \A u \in Nodes : u # t => (Holds(u, h)' <=> Holds(u, h))
    BY <1>4, <1>5, <1>7 DEF Holds
  <1>11. e < made /\ ~InQueue(b, n, L, e) /\ ~InPool(p, P, e)
    BY <1>3, <1>6, <1>8, <1>10 DEF Placed
  <1>12. PICK R : R = [P EXCEPT ![q] = e]
    OBVIOUS
  <1>13. R \in [Nat -> Handles] /\ R[q] = e /\ \A i \in Nat : i # q => R[i] = P[i]
    BY <1>6, <1>8, <1>12
  <1>14. /\ \A i \in 1..q : i = q \/ (i \in 1..p /\ R[i] = P[i])
         /\ \A i \in 1..p : i \in 1..q /\ i # q /\ R[i] = P[i] /\ P[i] # e
    <2>1. \A i \in 1..q : i \in Nat /\ (i = q \/ i \in 1..p)
      BY <1>4
    <2>2. \A i \in 1..p : i \in Nat /\ i \in 1..q /\ i # q
      BY <1>4
    <2> QED  BY <2>1, <2>2, <1>11, <1>13 DEF InPool
  <1>15. PoolIs(q, R)'
    <2>1. \A i \in 1..q : R[i] \in 0..(made - 1)
      <3>1. e \in 0..(made - 1)
        BY <1>6, <1>8, <1>11 DEF Handles
      <3> QED  BY <3>1, <1>3, <1>13, <1>14 DEF PoolIs
    <2>2. \A i, j \in 1..q : R[i] = R[j] => i = j
      BY <1>3, <1>13, <1>14 DEF PoolIs
    <2>3. ASSUME NEW i \in 2..q PROVE next[R[i]] = R[i - 1]
      <3>1. i - 1 \in 1..p /\ i - 1 # q
        BY <1>4
      <3>2. R[i - 1] = P[i - 1]
        BY <3>1, <1>14
      <3>3. CASE i = q
        <4>1. p > 0 /\ i - 1 = p
          BY <3>1, <3>3, <1>4
        <4> QED  BY <4>1, <3>2, <3>3, <1>3, <1>5, <1>13 DEF PoolIs
      <3>4. CASE i # q
        <4>1. i \in 2..p /\ i \in 1..p
          BY <3>4, <1>4
        <4>2. R[i] = P[i] /\ next[P[i]] = P[i - 1]
          BY <4>1, <1>3, <1>14 DEF PoolIs
        <4> QED  BY <4>2, <3>2
      <3> QED  BY <3>3, <3>4
    <2>4. next[R[1]] = Null
      <3>1. CASE p = 0
        <4>1. q = 1 /\ free = Null
          BY <3>1, <1>3, <1>4 DEF PoolIs
        <4> QED  BY <4>1, <1>5, <1>13
      <3>2. CASE p > 0
        <4>1. 1 \in 1..p
          BY <3>2
        <4>2. R[1] = P[1]
          BY <4>1, <1>14
        <4> QED  BY <4>2, <3>2, <1>3 DEF PoolIs
      <3> QED  BY <3>1, <3>2
    <2>5. q > 0 /\ q # 0
      BY <1>4
    <2> QED  BY <2>1, <2>2, <2>3, <2>4, <2>5, <1>5, <1>6, <1>13 DEF PoolIs
  <1>16. \A h : InPool(q, R, h) <=> InPool(p, P, h) \/ h = e
    <2>1. q \in 1..q
      BY <1>4
    <2> QED  BY <2>1, <1>13, <1>14 DEF InPool
  <1>17. Placed(b, n, L, q, R)'
    <2> SUFFICES ASSUME NEW h \in Handles
                 PROVE  /\ h < made <=> InQueue(b, n, L, h) \/ InPool(q, R, h) \/ \E u \in Nodes : Holds(u, h)'
                        /\ ~(InQueue(b, n, L, h) /\ InPool(q, R, h))
                        /\ \A u \in Nodes : Holds(u, h)' =>
                             /\ ~InQueue(b, n, L, h) /\ ~InPool(q, R, h)
                             /\ \A x \in Nodes : x # u => ~Holds(x, h)'
      BY <1>5 DEF Placed, InQueue, InPool
    <2>1. /\ h < made <=> InQueue(b, n, L, h) \/ InPool(p, P, h) \/ \E u \in Nodes : Holds(u, h)
          /\ ~(InQueue(b, n, L, h) /\ InPool(p, P, h))
          /\ \A u \in Nodes : Holds(u, h) =>
               /\ ~InQueue(b, n, L, h) /\ ~InPool(p, P, h)
               /\ \A x \in Nodes : x # u => ~Holds(x, h)
      BY <1>3 DEF Placed
    <2>2. /\ Holds(t, h) <=> h = e
          /\ ~Holds(t, h)'
          /\ \A u \in Nodes : u # t => (Holds(u, h)' <=> Holds(u, h))
      BY <1>10
    <2>3. InPool(q, R, h) <=> InPool(p, P, h) \/ h = e
      BY <1>16
    <2>4. CASE h = e
      BY <2>1, <2>2, <2>3, <2>4, <1>6
    <2>5. CASE h # e
      BY <2>1, <2>2, <2>3, <2>5, <1>6
    <2> QED  BY <2>4, <2>5
  <1>18. QueueIs(b, n, L)' /\ (Broken(b, n, L)' <=> Broken(b, n, L))
    BY <1>3, <1>5, <1>6, QueueFrame
  <1>19. RootIs(b, n, L)' /\ AllocIs(q, R)'
    <2>1. pc'[Root] = pc[Root]
      BY <1>6, <1>7
    <2>2. InPool(q, R, new)' <=> InPool(p, P, new) \/ new = e
      BY <1>5, <1>16 DEF InPool
    <2>3. AllocIs(q, R)'
      BY <2>1, <2>2, <1>3, <1>5 DEF AllocIs
    <2> QED  BY <2>1, <2>3, <1>3, <1>5, <1>6, <1>18 DEF RootIs
  <1>20. \A u \in Readers : Left(u)' = Left(u)
    BY <1>5, <1>6, <1>7 DEF Left
  <1>21. ItemsAre(b, n, L)'
    <2>1. \A k \in Nat : Gone(k)' = Gone(k)
      BY <1>20 DEF Gone
    <2> QED  BY <2>1, <1>3, <1>5, ItemsFrame
  <1>22. Retiring(b, n)'
    <2> SUFFICES ASSUME b < n, \A u \in Readers : b < Left(u)' PROVE \E u \in Readers : pc'[u] = "retire"
      BY DEF Retiring
    <2>1. PICK u \in Readers : pc[u] = "retire"
      BY <1>3, <1>20 DEF Retiring
    <2> QED  BY <2>1, <1>5, <1>6, <1>7
  <1>23. ASSUME NEW u \in Readers PROVE ReaderIs(b, n, L, u)'
    <2>1. ReaderIs(b, n, L, u)
      BY <1>3
    <2>2. CASE u = t
      BY <2>1, <2>2, <1>5, <1>6, <1>7, <1>18, <1>20 DEF ReaderIs, ReaderPlaces
    <2>3. CASE u # t
      <3>1. pc'[u] = pc[u] /\ Left(u)' = Left(u)
        BY <2>3, <1>6, <1>7, <1>20
      <3>2. pc[u] = "retire" => \A x \in Readers : b < Left(x)' /\ (x # u => pc'[x] # "retire")
        BY <2>1, <1>6, <1>7, <1>20 DEF ReaderIs
      <3> QED  BY <2>1, <3>1, <3>2, <1>5, <1>6, <1>18 DEF ReaderIs
    <2> QED  BY <2>2, <2>3
  <1>24. InvFor(b, n, L, q, R)'
    BY <1>15, <1>17, <1>18, <1>19, <1>21, <1>22, <1>23 DEF InvFor
  <1> QED  BY <1>6, <1>9, <1>13, <1>24 DEF BInv

----------------------------------------------------------------------------
(* The invariant holds. *)

\* At first the guarding node is the item of round 1, and the other handles are in the pool.
LEMMA InvInit ==
  ASSUME Init
  PROVE  BInv
  <1>1. /\ IsFiniteSet(Readers) /\ Root \in Nodes /\ group_size \in Nat /\ group_size >= 2
        /\ MaxHandles \in Nat /\ MaxHandles > group_size /\ MaxFails \in Nat /\ MaxSpurious \in Nat
        /\ \A t \in Nodes : t = Root \/ t \in Readers
        /\ Readers \subseteq Nodes
    BY GroupIs, BoundsAssumption
  <1>2. PICK g \in Nat : g = group_size
    BY <1>1
  <1>3. /\ next = [h \in Handles |-> IF h \in 1..(g - 1) THEN h + 1 ELSE Null]
        /\ avail = [h \in Handles |-> 0] /\ data = [h \in Handles |-> NoMemory]
        /\ first = 0 /\ free = 1 /\ made = g + 1
        /\ key = [t \in Nodes |-> Null] /\ pc = [t \in Nodes |-> "out"] /\ item = [t \in Nodes |-> Null]
        /\ new = Null /\ link = Null /\ fails = 0 /\ spurious = 0 /\ out = [t \in Nodes |-> <<>>]
    BY <1>2 DEF Init, tmpi_bcq_create
  <1>4. /\ 0 \in Handles /\ \A i \in 0..g : i \in Handles
        /\ \A h \in Handles : h \in Nat /\ (h < g + 1 <=> h = 0 \/ h \in 1..g)
    BY <1>1, <1>2 DEF Handles
  <1>5. TypeOK
    <2>1. next \in [Handles -> HandleOrNull \cup {Bad}]
      <3>1. \A h \in Handles : h \in 1..(g - 1) => h + 1 \in Handles
        BY <1>4
      <3> QED  BY <3>1, <1>3 DEF HandleOrNull
    <2>2. avail \in [Handles -> 0..group_size] /\ data \in [Handles -> Values]
      BY <1>1, <1>3 DEF Values
    <2>3. first \in Handles \cup {Bad} /\ free \in HandleOrNull /\ made \in (group_size + 1)..MaxHandles
      BY <1>1, <1>2, <1>3, <1>4 DEF HandleOrNull
    <2>4. out \in [Nodes -> Seq(Values)]
      BY <1>3
    <2>5. /\ key \in [Nodes -> HandleOrNull \cup {Bad}] /\ pc \in [Nodes -> Places]
          /\ item \in [Nodes -> HandleOrNull] /\ new \in HandleOrNull \cup {Bad} /\ link \in HandleOrNull
      BY <1>3 DEF HandleOrNull, Places
    <2>6. fails \in 0..MaxFails /\ spurious \in 0..MaxSpurious
      BY <1>1, <1>3
    <2> QED  BY <2>1, <2>2, <2>3, <2>4, <2>5, <2>6 DEF TypeOK
  <1>6. PICK L : L = [k \in Nat |-> 0]
    OBVIOUS
  <1>7. PICK P : P = [i \in Nat |-> IF 1 <= i /\ i <= g THEN g + 1 - i ELSE 0]
    OBVIOUS
  <1>8. L \in [Nat -> Handles] /\ L[1] = 0
    BY <1>4, <1>6
  <1>9. P \in [Nat -> Handles] /\ \A i \in 1..g : P[i] = g + 1 - i /\ P[i] \in 1..g
    <2>1. \A i \in Nat : 1 <= i /\ i <= g => g + 1 - i \in 0..g
      OBVIOUS
    <2> QED  BY <2>1, <1>4, <1>7
  <1>10. QueueIs(0, 1, L)
    <2>1. (0 + 1)..1 = {1} /\ (0 + 1)..(1 - 1) = {} /\ 0 \in 0..(made - 1) /\ next[0] = Null
      BY <1>3, <1>4
    <2> QED  BY <2>1, <1>3, <1>8 DEF QueueIs
  <1>11. PoolIs(g, P)
    <2>1. \A i \in 1..g : P[i] \in 0..(made - 1)
      BY <1>3, <1>9
    <2>2. ASSUME NEW i \in 1..g, NEW j \in 1..g, P[i] = P[j] PROVE i = j
      <3>1. P[i] = g + 1 - i /\ P[j] = g + 1 - j
        BY <1>9
      <3> QED  BY <3>1, <2>2
    <2>3. ASSUME NEW i \in 2..g PROVE next[P[i]] = P[i - 1]
      <3>1. i \in 1..g /\ i - 1 \in 1..g
        OBVIOUS
      <3>2. P[i] = g + 1 - i /\ P[i - 1] = g + 1 - (i - 1)
        BY <3>1, <1>9
      <3>3. g + 1 - i \in 1..(g - 1) /\ g + 1 - i \in Handles
        BY <1>4
      <3>4. next[g + 1 - i] = (g + 1 - i) + 1
        BY <3>3, <1>3
      <3> QED  BY <3>2, <3>4
    <2>4. g > 0 /\ free = P[g] /\ next[P[1]] = Null
      <3>1. 1 \in 1..g /\ g \in 1..g /\ g \in Handles /\ g \notin 1..(g - 1) /\ g > 0
        BY <1>1, <1>2, <1>4
      <3>2. P[1] = g + 1 - 1 /\ P[g] = g + 1 - g
        BY <3>1, <1>9
      <3>3. next[g] = Null
        BY <3>1, <1>3
      <3> QED  BY <3>1, <3>2, <3>3, <1>3
    <2> QED  BY <2>1, <2>2, <2>3, <2>4 DEF PoolIs
  <1>12. Placed(0, 1, L, g, P)
    <2> SUFFICES ASSUME NEW h \in Handles
                 PROVE  /\ h < made <=> InQueue(0, 1, L, h) \/ InPool(g, P, h) \/ \E t \in Nodes : Holds(t, h)
                        /\ ~(InQueue(0, 1, L, h) /\ InPool(g, P, h))
                        /\ \A t \in Nodes : Holds(t, h) =>
                             /\ ~InQueue(0, 1, L, h) /\ ~InPool(g, P, h)
                             /\ \A u \in Nodes : u # t => ~Holds(u, h)
      BY DEF Placed
    <2>1. \A t \in Nodes : ~Holds(t, h)
      BY <1>3 DEF Holds
    <2>2. InQueue(0, 1, L, h) <=> h = 0
      <3>1. (0 + 1)..1 = {1}
        OBVIOUS
      <3> QED  BY <3>1, <1>8 DEF InQueue
    <2>3. InPool(g, P, h) <=> h \in 1..g
      <3>1. ASSUME h \in 1..g PROVE InPool(g, P, h)
        <4>1. g + 1 - h \in 1..g /\ g + 1 - (g + 1 - h) = h
          BY <3>1
        <4>2. P[g + 1 - h] = h
          BY <4>1, <1>9
        <4> QED  BY <4>1, <4>2 DEF InPool
      <3>2. ASSUME InPool(g, P, h) PROVE h \in 1..g
        BY <3>2, <1>9 DEF InPool
      <3> QED  BY <3>1, <3>2
    <2>4. (h < made <=> h = 0 \/ h \in 1..g) /\ ~(h = 0 /\ h \in 1..g)
      BY <1>3, <1>4
    <2> QED  BY <2>1, <2>2, <2>3, <2>4
  <1>13. /\ pc[Root] = "out" /\ key[Root] = Null /\ out[Root] = <<>> /\ Sent = 0 /\ next[0] = Null /\ avail[0] = 0
         /\ \A t \in Readers : pc[t] = "out" /\ key[t] = Null /\ Len(out[t]) = 0 /\ Left(t) = 0
    <2>1. 0 \notin 1..(g - 1)
      OBVIOUS
    <2> QED  BY <2>1, <1>1, <1>3, <1>4 DEF Sent, Left
  <1>14. RootIs(0, 1, L)
    <2>1. ~Broken(0, 1, L)
      BY <1>8, <1>13 DEF Broken, Null, Bad
    <2> QED  BY <2>1, <1>13 DEF RootIs, RootPlaces
  <1>15. AllocIs(g, P)
    BY <1>13 DEF AllocIs
  <1>16. ItemsAre(0, 1, L)
    <2>1. (0 + 1)..1 = {1} /\ 1..0 = {}
      OBVIOUS
    <2> QED  BY <2>1, <1>8, <1>13 DEF ItemsAre
  <1>17. \A t \in Readers : ReaderIs(0, 1, L, t)
    BY <1>13 DEF ReaderIs, ReaderPlaces
  <1>18. Retiring(0, 1)
    <2>1. Readers # {}
      BY NodesAssumption
    <2> QED  BY <2>1, <1>13 DEF Retiring
  <1>19. InvFor(0, 1, L, g, P)
    BY <1>10, <1>11, <1>12, <1>14, <1>15, <1>16, <1>17, <1>18 DEF InvFor
  <1> QED  BY <1>5, <1>8, <1>9, <1>19 DEF BInv

\* Every step keeps the invariant.
LEMMA InvNext ==
  ASSUME BInv, [Next]_vars
  PROVE  BInv'
  <1>1. CASE RootStep
    <2>1. CASE Fill
      BY <2>1, FillStep, FillBadStep
    <2> QED
      BY <1>1, <2>1, EnterRootStep, EnterBadRootStep, AllocStep, PopCasStep, GrowStep, SpliceCasStep, PublishStep
      DEF RootStep
  <1>2. ASSUME NEW t \in Readers, ReaderStep(t) \/ SpuriousWakeup(t) PROVE BInv'
    BY <1>2, ReaderEnters, ReaderWaits, CopyStep, LeaveStep, RetireStep, PushStep, PushCasStep DEF ReaderStep
  <1>3. CASE UNCHANGED vars
    <2>1. TypeOK /\ \E b, n, p \in Nat, L, P \in [Nat -> Handles] : InvFor(b, n, L, p, P)
      BY DEF BInv
    <2>2. PICK b, n, p \in Nat, L, P \in [Nat -> Handles] : InvFor(b, n, L, p, P)
      BY <2>1
    <2>3. UNCHANGED <<next, avail, data, first, free, made, key, pc, item, new, link, fails, spurious, out>>
      BY <1>3 DEF vars
    <2>4. TypeOK'
      BY <2>1, <2>3 DEF TypeOK
    <2>5. Sent' = Sent /\ (\A t \in Nodes : Left(t)' = Left(t)) /\ \A k : Gone(k)' = Gone(k)
      BY <2>3 DEF Sent, Left, Gone
    <2>6. (Broken(b, n, L)' <=> Broken(b, n, L)) /\ \A t \in Nodes, h \in Handles : Holds(t, h)' <=> Holds(t, h)
      BY <2>3 DEF Broken, Holds
    <2>7. QueueIs(b, n, L)' /\ PoolIs(p, P)' /\ RootIs(b, n, L)' /\ AllocIs(p, P)'
      BY <2>2, <2>3, <2>5, <2>6 DEF InvFor, QueueIs, PoolIs, RootIs, AllocIs, InPool
    <2>8. Placed(b, n, L, p, P)'
      BY <2>2, <2>3, <2>6, PlacedFrame DEF InvFor
    <2>9. ItemsAre(b, n, L)'
      BY <2>2, <2>3, <2>5, ItemsFrame DEF InvFor
    <2>10. (\A t \in Readers : ReaderIs(b, n, L, t)') /\ Retiring(b, n)'
      BY <2>2, <2>3, <2>6, ReadersFrame DEF InvFor
    <2>11. InvFor(b, n, L, p, P)'
      BY <2>7, <2>8, <2>9, <2>10 DEF InvFor
    <2> QED  BY <2>4, <2>11 DEF BInv
  <1> QED  BY <1>1, <1>2, <1>3 DEF Next

\* The inductive invariant of the broadcast queue (tmpi_bco_bcast, tmpi_bch_alloc, tmpi_bch_free):
\* the handles are the items of the rounds that are not over, in their order, the stack of free
\* ones and those in the hands of one node.
THEOREM Invariance == Safe => []BInv
  <1>1. Init => BInv
    BY InvInit
  <1>2. BInv /\ [Next]_vars => BInv'
    BY InvNext
  <1> QED  BY <1>1, <1>2, PTL DEF Safe

----------------------------------------------------------------------------
(* What the readers get. *)

\* A step after which a reader has one more result, which is that of the root, or -1 when the
\* root has none.
LEMMA ReaderReturns ==
  ASSUME TypeOK, Agreement, NEW t \in Readers, NEW v \in Values, out' = [out EXCEPT ![t] = Append(@, v)],
         NEW k, k = Len(out[t]) + 1,
         k \in DOMAIN out[Root] => v = out[Root][k],
         k \notin DOMAIN out[Root] => v = -1
  PROVE  Agreement'
  <1>1. t \in Nodes /\ Root \in Nodes /\ t # Root /\ Readers \subseteq Nodes
    BY GroupIs
  <1>2. out[t] \in Seq(Values) /\ out'[t] = Append(out[t], v) /\ \A u \in Nodes : u # t => out'[u] = out[u]
    BY <1>1 DEF TypeOK
  <1>3. DOMAIN out'[t] = DOMAIN out[t] \cup {k} /\ out'[t][k] = v /\ \A j \in DOMAIN out[t] : out'[t][j] = out[t][j]
    BY <1>2
  <1>4. out'[Root] = out[Root]
    BY <1>1, <1>2
  <1>5. ASSUME NEW u \in Readers, NEW j \in DOMAIN out'[u]
        PROVE  IF j \in DOMAIN out[Root] THEN out'[u][j] = out[Root][j] ELSE out'[u][j] = -1
    <2>1. CASE u = t /\ j = k
      BY <2>1, <1>3
    <2>2. CASE u = t /\ j # k
      BY <2>2, <1>3 DEF Agreement
    <2>3. CASE u # t
      BY <2>3, <1>1, <1>2 DEF Agreement
    <2> QED  BY <2>1, <2>2, <2>3
  <1> QED  BY <1>4, <1>5 DEF Agreement

\* A step after which the root has one more result, which the readers that are ahead of it
\* have foreseen.
LEMMA RootReturns ==
  ASSUME TypeOK, Agreement, NEW v \in Values, out' = [out EXCEPT ![Root] = Append(@, v)],
         NEW k, k = Sent + 1, v = -1 \/ \A t \in Readers : Len(out[t]) <= Sent
  PROVE  Agreement'
  <1>1. Root \in Nodes /\ Readers \subseteq Nodes /\ Root \notin Readers /\ Sent \in Nat
    BY GroupIs, NumbersAre
  <1>2. out[Root] \in Seq(Values) /\ out'[Root] = Append(out[Root], v) /\ \A u \in Readers : out'[u] = out[u]
    BY <1>1 DEF TypeOK
  <1>3. /\ DOMAIN out'[Root] = DOMAIN out[Root] \cup {k} /\ out'[Root][k] = v
        /\ \A j \in DOMAIN out[Root] : out'[Root][j] = out[Root][j] /\ j # k
    BY <1>2 DEF Sent
  <1>4. \A u \in Readers : out[u] \in Seq(Values)
    BY <1>1 DEF TypeOK
  <1>5. ASSUME NEW u \in Readers, NEW j \in DOMAIN out[u]
        PROVE  IF j \in DOMAIN out'[Root] THEN out[u][j] = out'[Root][j] ELSE out[u][j] = -1
    <2>1. CASE j = k
      <3>1. ~(Len(out[u]) <= Sent)
        BY <2>1, <1>1, <1>4
      <3>2. v = -1 /\ j \notin DOMAIN out[Root]
        BY <3>1, <2>1, <1>3
      <3> QED  BY <3>2, <2>1, <1>3 DEF Agreement
    <2>2. CASE j # k
      BY <2>2, <1>3 DEF Agreement
    <2> QED  BY <2>1, <2>2
  <1> QED  BY <1>2, <1>5 DEF Agreement

\* Every step keeps the readers in agreement with the root.
LEMMA AgreementNext ==
  ASSUME BInv, Agreement, [Next]_vars
  PROVE  Agreement'
  <1>1. TypeOK /\ \E b, n, p \in Nat, L, P \in [Nat -> Handles] : InvFor(b, n, L, p, P)
    BY DEF BInv
  <1>2. PICK b, n, p \in Nat, L, P \in [Nat -> Handles] : InvFor(b, n, L, p, P)
    BY <1>1
  <1>3. /\ QueueIs(b, n, L) /\ RootIs(b, n, L) /\ ItemsAre(b, n, L)
        /\ \A t \in Readers : ReaderIs(b, n, L, t)
    BY <1>2 DEF InvFor
  <1>4. /\ Root \in Nodes /\ Readers \subseteq Nodes /\ Sent \in Nat /\ -1 \in Values
        /\ \A t \in Readers : Len(out[t]) \in Nat
    BY <1>1, GroupIs, NumbersAre DEF Values
  <1>5. CASE out' = out
    BY <1>5 DEF Agreement
  <1>6. CASE EnterBad(Root)
    <2>1. out' = [out EXCEPT ![Root] = Append(@, -1)]
      BY <1>6 DEF EnterBad, Return
    <2> QED  BY <2>1, <1>1, <1>4, RootReturns
  <1>7. CASE Publish
    <2>1. pc[Root] = "publish" /\ out' = [out EXCEPT ![Root] = Append(@, data[item[Root]])]
      BY <1>7 DEF Publish, Return
    <2>2. item[Root] = L[Sent + 1] /\ Sent < n
      BY <2>1, <1>3, <1>4 DEF RootIs
    <2>3. \A t \in Readers : Len(out[t]) <= Sent
      BY <2>2, <1>3, <1>4 DEF ReaderIs
    <2>4. data[item[Root]] \in Values
      BY <2>2, <1>1, <1>4 DEF TypeOK
    <2> QED  BY <2>1, <2>3, <2>4, <1>1, RootReturns
  <1>8. ASSUME NEW t \in Readers, EnterBad(t) PROVE Agreement'
    <2>1. pc[t] = "out" /\ out' = [out EXCEPT ![t] = Append(@, -1)] /\ (IF key[t] = Null THEN first ELSE key[t]) = Bad
      BY <1>8 DEF EnterBad, Return
    <2>2. n <= Len(out[t])
      <3>1. ReaderIs(b, n, L, t) /\ Left(t) = Len(out[t])
        BY <2>1, <1>3 DEF Left
      <3>2. \A h \in Handles : h # Null /\ h # Bad
        BY DEF Handles, Null, Bad
      <3>3. CASE key[t] = Null /\ Len(out[t]) = 0
        <4>1. b = 0 /\ b < n
          BY <3>1, <3>3, <1>3 DEF ReaderIs, QueueIs
        <4>2. first = L[1]
          BY <4>1, <1>3 DEF QueueIs
        <4> QED  BY <4>2, <3>2, <3>3, <2>1
      <3>4. CASE key[t] = L[Len(out[t]) + 1]
        <4>1. L[Len(out[t]) + 1] \in Handles
          BY <1>4
        <4> QED  BY <4>1, <3>2, <3>4, <2>1
      <3> QED  BY <3>1, <3>3, <3>4, <2>1 DEF ReaderIs
    <2>3. PICK k : k = Len(out[t]) + 1
      OBVIOUS
    <2>4. k \in DOMAIN out[Root] => out[Root][k] = -1
      <3>1. out[Root] \in Seq(Values)
        BY <1>1, <1>4 DEF TypeOK
      <3>2. k \in DOMAIN out[Root] => k \in 1..Sent /\ k > n
        BY <3>1, <2>2, <2>3, <1>4 DEF Sent
      <3> QED  BY <3>2, <1>3 DEF ItemsAre
    <2> QED  BY <2>1, <2>3, <2>4, <1>1, <1>4, ReaderReturns
  <1>9. ASSUME NEW t \in Readers, Copy(t) PROVE Agreement'
    <2>1. pc[t] = "copy" /\ out' = [out EXCEPT ![t] = Append(@, data[item[t]])]
      BY <1>9 DEF Copy, Return, Goto
    <2>2. PICK k : k = Len(out[t]) + 1
      OBVIOUS
    <2>3. Left(t) = Len(out[t])
      BY <2>1 DEF Left
    <2>4. k \in (b + 1)..n /\ k <= Sent /\ item[t] = L[k]
      BY <2>1, <2>2, <2>3, <1>3, <1>4 DEF ReaderIs
    <2>5. data[item[t]] = out[Root][k] /\ data[item[t]] \in Values
      <3>1. data[item[t]] = out[Root][k]
        BY <2>4, <1>3 DEF ItemsAre
      <3>2. item[t] \in Handles
        BY <2>4
      <3> QED  BY <3>1, <3>2, <1>1 DEF TypeOK
    <2>6. k \in DOMAIN out[Root]
      <3>1. out[Root] \in Seq(Values)
        BY <1>1, <1>4 DEF TypeOK
      <3> QED  BY <3>1, <2>4, <1>4 DEF Sent
    <2> QED  BY <2>1, <2>2, <2>5, <2>6, <1>1, ReaderReturns
  <1>10. CASE RootStep
    <2>1. out' = out \/ EnterBad(Root) \/ Publish
      BY <1>10 DEF RootStep, Enter, PopNext, PopCas, PopRetry, Grow, GrowFails, SpliceNext, SpliceCas, SpliceRetry, Fill
    <2> QED  BY <2>1, <1>5, <1>6, <1>7
  <1>11. ASSUME NEW t \in Readers, ReaderStep(t) \/ SpuriousWakeup(t) PROVE Agreement'
    <2>1. out' = out \/ EnterBad(t) \/ Copy(t)
      BY <1>11 DEF ReaderStep, SpuriousWakeup, Enter, Sleep, SeeAvail, Leave, Retire, PushNext, PushCas, PushRetry
    <2> QED  BY <2>1, <1>5, <1>8, <1>9
  <1>12. CASE UNCHANGED vars
    BY <1>5, <1>12 DEF vars
  <1> QED  BY <1>10, <1>11, <1>12 DEF Next

\* What tmpi_bco_bcast promises: the k-th call of every reader gives what the root's k-th call
\* gave, for any number of readers and broadcasts, however far behind a reader is, however often
\* a handle has been used again, and also when memory runs out.
THEOREM ReadersAgree == Safe => []Agreement
  <1>1. Init => Agreement
    BY GroupIs DEF Init, Agreement
  <1>2. BInv /\ Agreement /\ [Next]_vars => Agreement'
    BY AgreementNext
  <1> QED  BY <1>1, <1>2, Invariance, PTL DEF Safe

----------------------------------------------------------------------------
(* Where the handles are. *)

\* A set of numbers that is not empty has a least one.
LEMMA LeastNumber ==
  ASSUME NEW T \in SUBSET Nat, T # {}
  PROVE  \E x \in T : \A y \in T : x <= y
  <1> DEFINE R == {p \in Nat \X Nat : p[1] < p[2]}
  <1>1. IsWellFoundedOn(R, Nat)
    BY NatLessThanWellFounded DEF OpToRel
  <1>2. PICK x \in T : \A y \in T : <<y, x>> \notin R
    BY <1>1, WFMin
  <1>3. \A y \in T : ~(y < x)
    BY <1>2
  <1> QED  BY <1>3

\* The handles on a list of m handles that starts at h.
LEMMA ListIs ==
  ASSUME NEW h, NEW m \in Nat, NEW f,
         \A k \in 1..m : f[k] \in 0..(made - 1) /\ f[k] \in Handles,
         \A k \in 1..m : k < m => next[f[k]] = f[k + 1],
         m > 0 => h = f[1] /\ next[f[m]] \notin Handles,
         m = 0 => h \notin Handles
  PROVE  ListFrom(h) = {f[k] : k \in 1..m}
  <1>1. PICK S : S = {f[k] : k \in 1..m}
    OBVIOUS
  <1>2. S \in SUBSET (0..(made - 1)) /\ (h \in Handles => h \in S)
    BY <1>1
  <1>3. ASSUME NEW x \in S, next[x] \in Handles PROVE next[x] \in S
    <2>1. PICK k \in 1..m : x = f[k]
      BY <1>1
    <2>2. k < m
      BY <2>1, <1>3
    <2>3. k + 1 \in 1..m /\ next[x] = f[k + 1]
      BY <2>1, <2>2
    <2> QED  BY <2>3, <1>1
  <1>4. ASSUME NEW x \in ListFrom(h) PROVE x \in S
    BY <1>2, <1>3, <1>4 DEF ListFrom
  <1>5. ASSUME NEW k \in 1..m PROVE f[k] \in ListFrom(h)
    <2> SUFFICES ASSUME NEW C \in SUBSET (0..(made - 1)), h \in Handles => h \in C,
                        \A x \in C : next[x] \in Handles => next[x] \in C
                 PROVE  f[k] \in C
      BY DEF ListFrom
    <2>1. PICK T : T = {j \in 1..m : f[j] \notin C}
      OBVIOUS
    <2> SUFFICES ASSUME T # {} PROVE FALSE
      BY <2>1
    <2>2. T \in SUBSET Nat
      BY <2>1
    <2>3. PICK j \in T : \A y \in T : j <= y
      BY <2>2, LeastNumber
    <2>4. j \in 1..m /\ f[j] \notin C
      BY <2>1, <2>3
    <2>5. CASE j = 1
      BY <2>4, <2>5
    <2>6. CASE j # 1
      <3>1. j - 1 \in 1..m /\ j - 1 < m /\ ~(j <= j - 1) /\ (j - 1) + 1 = j
        BY <2>4, <2>6
      <3>2. f[j - 1] \in C
        BY <3>1, <2>1, <2>3
      <3>3. next[f[j - 1]] = f[j]
        BY <3>1
      <3> QED  BY <3>2, <3>3, <2>4
    <2> QED  BY <2>5, <2>6
  <1> QED  BY <1>1, <1>4, <1>5

\* The lists that start at q->first and at q->free are the queue and the pool.
LEMMA ListsAre ==
  ASSUME TypeOK, NEW b \in Nat, NEW n \in Nat, NEW p \in Nat, NEW L \in [Nat -> Handles], NEW P \in [Nat -> Handles],
         QueueIs(b, n, L), PoolIs(p, P)
  PROVE  /\ \A h : h \in ListFrom(first) <=> InQueue(b, n, L, h)
         /\ \A h : h \in ListFrom(free) <=> InPool(p, P, h)
  <1>1. Null \notin Handles /\ Bad \notin Handles /\ b <= n
    BY DEF Handles, Null, Bad, QueueIs
  <1>2. \A h : h \in ListFrom(first) <=> InQueue(b, n, L, h)
    <2>1. PICK m \in Nat : m = n - b
      BY <1>1
    <2>2. PICK f : f = [k \in Nat |-> L[b + k]]
      OBVIOUS
    <2>3. \A k \in 1..m : f[k] = L[b + k] /\ b + k \in (b + 1)..n
      BY <2>1, <2>2
    <2>4. \A k \in 1..m : f[k] \in 0..(made - 1) /\ f[k] \in Handles
      BY <2>3 DEF QueueIs
    <2>5. ASSUME NEW k \in 1..m, k < m PROVE next[f[k]] = f[k + 1]
      <3>1. k + 1 \in 1..m /\ b + k \in (b + 1)..(n - 1) /\ (b + k) + 1 = b + (k + 1)
        BY <2>1, <2>5
      <3> QED  BY <3>1, <2>3 DEF QueueIs
    <2>6. ASSUME m > 0 PROVE first = f[1] /\ next[f[m]] \notin Handles
      <3>1. b < n /\ 1 \in 1..m /\ m \in 1..m /\ b + m = n
        BY <2>1, <2>6
      <3>2. f[1] = L[b + 1] /\ f[m] = L[n]
        BY <3>1, <2>3
      <3> QED  BY <3>1, <3>2, <1>1 DEF QueueIs
    <2>7. m = 0 => first \notin Handles
      BY <2>1, <1>1 DEF QueueIs
    <2>8. ListFrom(first) = {f[k] : k \in 1..m}
      BY <2>4, <2>5, <2>6, <2>7, ListIs
    <2>9. \A j \in (b + 1)..n : j - b \in 1..m /\ L[j] = f[j - b]
      <3>1. \A j \in (b + 1)..n : j - b \in 1..m /\ b + (j - b) = j
        BY <2>1
      <3> QED  BY <3>1, <2>3
    <2> QED  BY <2>3, <2>8, <2>9 DEF InQueue
  <1>3. \A h : h \in ListFrom(free) <=> InPool(p, P, h)
    <2>1. PICK f : f = [k \in Nat |-> P[p + 1 - k]]
      OBVIOUS
    <2>2. \A k \in 1..p : f[k] = P[p + 1 - k] /\ p + 1 - k \in 1..p
      BY <2>1
    <2>3. \A k \in 1..p : f[k] \in 0..(made - 1) /\ f[k] \in Handles
      BY <2>2 DEF PoolIs
    <2>4. ASSUME NEW k \in 1..p, k < p PROVE next[f[k]] = f[k + 1]
      <3>1. k + 1 \in 1..p /\ p + 1 - k \in 2..p /\ (p + 1 - k) - 1 = p + 1 - (k + 1)
        BY <2>4
      <3>2. next[P[p + 1 - k]] = P[(p + 1 - k) - 1]
        BY <3>1 DEF PoolIs
      <3> QED  BY <3>1, <3>2, <2>2
    <2>5. ASSUME p > 0 PROVE free = f[1] /\ next[f[p]] \notin Handles
      <3>1. 1 \in 1..p /\ p \in 1..p /\ p + 1 - 1 = p /\ p + 1 - p = 1
        BY <2>5
      <3>2. f[1] = P[p] /\ f[p] = P[1]
        BY <3>1, <2>2
      <3> QED  BY <3>2, <2>5, <1>1 DEF PoolIs
    <2>6. p = 0 => free \notin Handles
      BY <1>1 DEF PoolIs
    <2>7. ListFrom(free) = {f[k] : k \in 1..p}
      BY <2>3, <2>4, <2>5, <2>6, ListIs
    <2>8. \A j \in 1..p : p + 1 - j \in 1..p /\ P[j] = f[p + 1 - j]
      <3>1. \A j \in 1..p : p + 1 - j \in 1..p /\ p + 1 - (p + 1 - j) = j
        OBVIOUS
      <3> QED  BY <3>1, <2>2
    <2> QED  BY <2>2, <2>7, <2>8 DEF InPool
  <1> QED  BY <1>2, <1>3

\* The handles in the hands of a node.
LEMMA TransitIs ==
  ASSUME TypeOK, NEW b \in Nat, NEW n \in Nat, NEW p \in Nat, NEW L, NEW P, InvFor(b, n, L, p, P), NEW t \in Nodes, NEW h
  PROVE  h \in InTransit(t) <=> h \in Handles /\ Holds(t, h)
  <1>1. made \in Nat /\ made <= MaxHandles /\ MaxHandles \in Nat /\ group_size \in Nat /\ group_size >= 2
    BY NumbersAre, GroupIs
  <1>2. t = Root => pc[t] \in RootPlaces /\ AllocIs(p, P)
    BY DEF InvFor, RootIs
  <1>3. t # Root => pc[t] \in ReaderPlaces /\ (pc[t] \in {"push", "push_cas"} => item[t] \in Handles)
    BY GroupIs DEF InvFor, ReaderIs
  <1>4. CASE pc[t] \in {"push", "push_cas"}
    <2>1. item[t] \in Handles
      BY <1>2, <1>3, <1>4 DEF RootPlaces
    <2> QED  BY <2>1, <1>4 DEF InTransit, Holds
  <1>5. CASE pc[t] = "fill"
    BY <1>5 DEF InTransit, Holds
  <1>6. CASE pc[t] \in {"splice", "splice_cas"}
    <2>1. new \in Nat /\ new + group_size = made
      BY <1>2, <1>3, <1>6 DEF ReaderPlaces, AllocIs
    <2>2. InTransit(t) = new..(new + group_size - 1)
      BY <1>6 DEF InTransit
    <2>3. Holds(t, h) <=> new <= h /\ h < new + group_size
      BY <1>6 DEF Holds
    <2> QED  BY <2>1, <2>2, <2>3, <1>1 DEF Handles
  <1>7. CASE pc[t] \notin {"push", "push_cas", "fill", "splice", "splice_cas"}
    BY <1>7 DEF InTransit, Holds
  <1> QED  BY <1>4, <1>5, <1>6, <1>7

\* In every state that the invariant allows the handles are where they should be.
LEMMA InvIsSound ==
  ASSUME BInv
  PROVE  MemorySound
  <1>1. TypeOK /\ \E b, n, p \in Nat, L, P \in [Nat -> Handles] : InvFor(b, n, L, p, P)
    BY DEF BInv
  <1>2. PICK b, n, p \in Nat, L, P \in [Nat -> Handles] : InvFor(b, n, L, p, P)
    BY <1>1
  <1>3. /\ QueueIs(b, n, L) /\ PoolIs(p, P) /\ Placed(b, n, L, p, P) /\ RootIs(b, n, L) /\ ItemsAre(b, n, L)
        /\ \A t \in Readers : ReaderIs(b, n, L, t)
    BY <1>2 DEF InvFor
  <1>4. PICK live, pool : live = ListFrom(first) /\ pool = ListFrom(free)
    OBVIOUS
  <1>5. (\A h : h \in live <=> InQueue(b, n, L, h)) /\ \A h : h \in pool <=> InPool(p, P, h)
    BY <1>1, <1>3, <1>4, ListsAre
  <1>6. \A t \in Nodes : \A h : h \in InTransit(t) <=> h \in Handles /\ Holds(t, h)
    BY <1>1, <1>2, TransitIs
  <1>7. /\ made \in Nat /\ made <= MaxHandles /\ MaxHandles \in Nat /\ Root \in Nodes /\ Sent \in Nat
        /\ \A t \in Nodes : t = Root \/ t \in Readers
        /\ \A t \in Readers : t \in Nodes /\ Len(out[t]) \in Nat /\ (pc[t] # "leave" => Left(t) = Len(out[t]))
    BY <1>1, NumbersAre, GroupIs
  <1>8. \A h : h \in live \/ h \in pool => h \in Handles
    BY <1>3, <1>5, <1>7 DEF InQueue, InPool
  <1>9. PoolSound(pool, live)
    <2>1. pool \cap live = {}
      BY <1>3, <1>5, <1>8 DEF Placed
    <2>2. \A t \in Nodes : InTransit(t) \cap (pool \cup live) = {}
      BY <1>3, <1>5, <1>6 DEF Placed
    <2>3. \A t, u \in Nodes : t # u => InTransit(t) \cap InTransit(u) = {}
      BY <1>3, <1>6 DEF Placed
    <2>4. pool \cup live \cup UNION {InTransit(t) : t \in Nodes} = 0..(made - 1)
      <3>1. ASSUME NEW h PROVE h \in 0..(made - 1) <=> h \in Handles /\ h < made
        <4>1. ASSUME h \in 0..(made - 1) PROVE h \in Handles /\ h < made
          BY <4>1, <1>7 DEF Handles
        <4>2. ASSUME h \in Handles, h < made PROVE h \in 0..(made - 1)
          BY <4>2, <1>7 DEF Handles
        <4> QED  BY <4>1, <4>2
      <3>2. ASSUME NEW h PROVE (h \in pool \/ h \in live \/ \E t \in Nodes : h \in InTransit(t)) <=> h \in Handles /\ h < made
        BY <1>3, <1>5, <1>6, <1>8 DEF Placed
      <3> QED  BY <3>1, <3>2
    <2>5. ASSUME pool # {} PROVE \E h \in pool : next[h] = Null
      <3>1. PICK i \in 1..p : P[i] \in pool
        BY <2>5, <1>5 DEF InPool
      <3>2. p > 0 /\ 1 \in 1..p
        BY <3>1
      <3>3. P[1] \in pool /\ next[P[1]] = Null
        BY <3>2, <1>3, <1>5 DEF InPool, PoolIs
      <3> QED  BY <3>3
    <2> QED  BY <2>1, <2>2, <2>3, <2>4, <2>5 DEF PoolSound
  <1>10. \A k \in (b + 1)..n : L[k] \in live
    BY <1>5 DEF InQueue
  <1>11. ASSUME pc[Root] # "out" PROVE Sent + 1 \in (b + 1)..n /\ item[Root] = L[Sent + 1]
    <2>1. b <= Sent /\ Sent < n /\ item[Root] = L[Sent + 1]
      BY <1>3, <1>7, <1>11 DEF RootIs
    <2> QED  BY <2>1, <1>7
  <1>12. ASSUME NEW t \in Readers, pc[t] \notin {"out", "push", "push_cas"} PROVE item[t] \in live
    <2>1. ReaderIs(b, n, L, t) /\ Len(out[t]) \in Nat /\ (pc[t] # "leave" => Left(t) = Len(out[t]))
      BY <1>3, <1>7
    <2>2. CASE pc[t] \in {"lock", "sleep", "copy"}
      <3>1. Len(out[t]) + 1 \in (b + 1)..n /\ item[t] = L[Len(out[t]) + 1]
        BY <2>1, <2>2 DEF ReaderIs
      <3> QED  BY <3>1, <1>10
    <2>3. CASE pc[t] = "leave"
      <3>1. Len(out[t]) \in (b + 1)..n /\ item[t] = L[Len(out[t])]
        BY <2>1, <2>3 DEF ReaderIs
      <3> QED  BY <3>1, <1>10
    <2>4. CASE pc[t] = "retire"
      <3>1. b + 1 \in (b + 1)..n /\ item[t] = L[b + 1]
        BY <2>1, <2>4 DEF ReaderIs
      <3> QED  BY <3>1, <1>10
    <2> QED  BY <2>1, <2>2, <2>3, <2>4, <1>12 DEF ReaderIs, ReaderPlaces
  <1>13. ASSUME NEW t \in Readers, pc[t] = "copy" PROVE next[item[t]] # Null
    <2>1. PICK k : k = Len(out[t]) + 1
      OBVIOUS
    <2>2. k \in (b + 1)..n /\ k <= Sent /\ item[t] = L[k]
      BY <2>1, <1>3, <1>7, <1>13 DEF ReaderIs
    <2>3. (k < n /\ next[L[k]] = L[k + 1]) \/ next[L[k]] = Bad
      BY <2>2, <1>1, <1>3, NextOfItem
    <2>4. L[k + 1] \in Handles
      BY <2>2
    <2> QED  BY <2>2, <2>3, <2>4 DEF Handles, Null, Bad
  <1>14. ItemsAlive(live)
    <2>1. pc[Root] # "out" => avail[item[Root]] = 0 /\ item[Root] \in live
      <3>1. ~(Sent + 1 <= Sent)
        BY <1>7
      <3> QED  BY <3>1, <1>3, <1>10, <1>11 DEF ItemsAre
    <2> QED  BY <2>1, <1>7, <1>12, <1>13 DEF ItemsAlive
  <1> QED  BY <1>1, <1>4, <1>9, <1>14 DEF MemorySound

\* The lock-free pool and the queue: no handle is lost, handed out twice or used after its last
\* reader gave it back, for any number of readers, handles, broadcasts and failed allocations.
THEOREM HandlesAreSafe == Safe => []MemorySound
  <1>1. BInv => MemorySound
    BY InvIsSound
  <1> QED  BY <1>1, Invariance, PTL
=============================================================================
