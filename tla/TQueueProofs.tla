---------------------------- MODULE TQueueProofs ----------------------------
(***************************************************************************)
(* The queue of tqueue.c is a sequence, for chunks of any size and any     *)
(* number of them.                                                         *)
(***************************************************************************)
EXTENDS TQueue, SequenceTheorems, FiniteSetTheorems, NaturalsInduction, WellFoundedInduction, TLAPS

Size == chunk_group * MaxChunks
Members(s) == {s[i] : i \in 1..Len(s)}
Apart(s) == \A i, j \in 1..Len(s) : s[i] = s[j] => i = j

\* The BUCKETs around the queue: qctrl, the elements, qctrl again.
Around(s, i) == IF i \in 1..Len(s) THEN s[i] ELSE qctrl
Ring(s) ==
  \A i \in 0..Len(s) : next[Around(s, i)] = Around(s, i + 1) /\ prev[Around(s, i + 1)] = Around(s, i)

Places == BUCKETs \cup {qctrl}
Links == [Places -> Places \cup {NULL_ELEM}]

\* The queue is the sequence s, the pool the sequence p.
QShape(s, p) ==
  /\ s \in Seq(BUCKETs) /\ p \in Seq(BUCKETs) /\ Apart(s) /\ Apart(p)
  /\ Ring(s) /\ count = Len(s)
  /\ Linked(prev, allocate, NULL_ELEM, p)
  /\ Members(s) \cup Members(p) \cup users = 1..(chunks * chunk_group)
  /\ Members(s) \cap Members(p) = {} /\ Members(s) \cap users = {} /\ Members(p) \cap users = {}

QTyped == next \in Links /\ prev \in Links /\ chunks \in 1..MaxChunks

QInv == QTyped /\ \E s, p : QShape(s, p)

----------------------------------------------------------------------------
LEMMA ChunksFit ==
  ASSUME NEW c \in 1..MaxChunks
  PROVE  /\ c * chunk_group \in Nat /\ c * chunk_group <= Size /\ Size \in Nat
         /\ (c + 1) * chunk_group = c * chunk_group + chunk_group
         /\ c < MaxChunks => c * chunk_group + chunk_group <= Size
         /\ BUCKETs = 1..Size
  <1>1. chunk_group \in Nat /\ MaxChunks \in Nat /\ c \in Nat /\ c <= MaxChunks
    BY QueueAssumption
  <1>2. \A a, b, g \in Nat : a <= b => a * g <= b * g /\ a * g \in Nat /\ b * g \in Nat
    OBVIOUS
  <1>3. c * chunk_group <= MaxChunks * chunk_group /\ c * chunk_group \in Nat
        /\ MaxChunks * chunk_group \in Nat
    BY <1>1, <1>2
  <1>4. MaxChunks * chunk_group = chunk_group * MaxChunks
    BY <1>1
  <1>5. (c + 1) * chunk_group = c * chunk_group + chunk_group
    BY <1>1
  <1>6. c < MaxChunks => (c + 1) * chunk_group <= MaxChunks * chunk_group
    BY <1>1, <1>2
  <1> QED  BY <1>3, <1>4, <1>5, <1>6 DEF Size, BUCKETs

LEMMA BucketsAre == /\ Size \in Nat /\ BUCKETs = 1..Size /\ qctrl \notin BUCKETs /\ NULL_ELEM \notin BUCKETs
                    /\ qctrl # NULL_ELEM
  <1>1. chunk_group \in Nat /\ MaxChunks \in Nat
    BY QueueAssumption
  <1>2. chunk_group * MaxChunks \in Nat
    BY <1>1
  <1> QED  BY <1>2 DEF Size, BUCKETs, qctrl, NULL_ELEM

\* A set of numbers that is not empty has a least one.
LEMMA LeastNumber ==
  ASSUME NEW T \in SUBSET Nat, T # {}
  PROVE  \E x \in T : \A y \in T : x <= y
  <1> DEFINE R == {w \in Nat \X Nat : w[1] < w[2]}
  <1>1. IsWellFoundedOn(R, Nat)
    BY NatLessThanWellFounded DEF OpToRel
  <1>2. PICK x \in T : \A y \in T : <<y, x>> \notin R
    BY <1>1, WFMin
  <1>3. \A y \in T : ~(y < x)
    BY <1>2
  <1> QED  BY <1>3

\* Links lead to one sequence only.
LEMMA LinkedOnce ==
  ASSUME NEW f, NEW first, NEW end, end \notin BUCKETs,
         NEW s \in Seq(BUCKETs), NEW q \in Seq(BUCKETs),
         Linked(f, first, end, s), Linked(f, first, end, q)
  PROVE  s = q
  <1> DEFINE T == {i \in Nat : i \in 1..Len(s) /\ ~(i \in 1..Len(q) /\ q[i] = s[i])}
  <1>1. \A i \in 1..Len(s) : i \in 1..Len(q) /\ q[i] = s[i]
    <2> SUFFICES ASSUME T # {} PROVE FALSE
      OBVIOUS
    <2>1. PICK i \in T : \A j \in T : i <= j
      BY LeastNumber
    <2>2. i \in 1..Len(s) /\ s[i] \in BUCKETs /\ Len(s) \in Nat /\ Len(q) \in Nat
      BY ElementOfSeq
    <2>3. CASE i = 1
      <3>1. first = s[1] /\ s[1] \in BUCKETs
        BY <2>2, <2>3 DEF Linked
      <3>2. q # <<>> /\ first = q[1]
        BY <3>1 DEF Linked
      <3>3. 1 \in 1..Len(q)
        BY <3>2, <2>2
      <3> QED  BY <2>1, <2>3, <3>1, <3>2, <3>3
    <2>4. CASE i # 1
      <3>1. i - 1 \in 1..Len(s) /\ i - 1 # Len(s) /\ ~(i <= i - 1) /\ (i - 1) + 1 = i /\ i - 1 \in Nat
        BY <2>2, <2>4
      <3>2. i - 1 \notin T
        BY <2>1, <3>1
      <3>3. i - 1 \in 1..Len(q) /\ q[i - 1] = s[i - 1]
        BY <3>1, <3>2
      <3>4. f[s[i - 1]] = s[i]
        BY <3>1 DEF Linked
      <3>5. f[q[i - 1]] = IF i - 1 = Len(q) THEN end ELSE q[i]
        BY <3>1, <3>3 DEF Linked
      <3>6. i - 1 # Len(q) /\ q[i] = s[i]
        BY <2>2, <3>3, <3>4, <3>5
      <3>7. i \in 1..Len(q)
        BY <2>2, <3>3, <3>6
      <3> QED  BY <2>1, <3>6, <3>7
    <2> QED  BY <2>3, <2>4
  <1>2. Len(s) = Len(q)
    <2>1. Len(s) \in Nat /\ Len(q) \in Nat
      OBVIOUS
    <2>2. CASE Len(s) = 0
      <3>1. first = end
        BY <2>2 DEF Linked
      <3>2. q = <<>>
        <4> SUFFICES ASSUME q # <<>> PROVE FALSE
          OBVIOUS
        <4>1. first = q[1] /\ q[1] \in BUCKETs
          BY <2>1, ElementOfSeq DEF Linked
        <4> QED  BY <3>1, <4>1
      <3> QED  BY <2>2, <3>2
    <2>3. CASE Len(s) # 0
      <3> DEFINE n == Len(s)
      <3>1. n \in 1..Len(s) /\ n \in 1..Len(q) /\ q[n] = s[n]
        BY <1>1, <2>1, <2>3
      <3>2. f[s[n]] = end
        BY <3>1 DEF Linked
      <3>3. f[q[n]] = IF n = Len(q) THEN end ELSE q[n + 1]
        BY <3>1 DEF Linked
      <3>4. ASSUME n # Len(q) PROVE FALSE
        <4>1. n + 1 \in 1..Len(q)
          BY <2>1, <3>1, <3>4
        <4>2. q[n + 1] \in BUCKETs
          BY <4>1, ElementOfSeq
        <4> QED  BY <3>1, <3>2, <3>3, <3>4, <4>2
      <3> QED  BY <3>4
    <2> QED  BY <2>2, <2>3
  <1> QED  BY <1>1, <1>2, SeqEqual

\* A sequence without repetitions is no longer than the elements are many.
LEMMA ApartShort ==
  ASSUME NEW s \in Seq(BUCKETs), Apart(s)
  PROVE  s \in ElemLists
  <1>1. Size \in Nat /\ BUCKETs = 1..Size /\ Len(s) \in Nat /\ s \in [1..Len(s) -> BUCKETs]
    BY BucketsAre, LenProperties
  <1>2. IsFiniteSet(BUCKETs) /\ Cardinality(BUCKETs) = Size
    <2>1. Cardinality(1..Size) = IF 1 > Size THEN 0 ELSE Size - 1 + 1
      BY <1>1, FS_Interval
    <2> QED  BY <1>1, <2>1, FS_Interval
  <1>3. Members(s) \subseteq BUCKETs
    BY <1>1 DEF Members
  <1>4. IsFiniteSet(Members(s)) /\ Cardinality(Members(s)) <= Size
    BY <1>2, <1>3, FS_Subset
  <1>5. ExistsBijection(1..Len(s), Members(s))
    <2>1. s \in Bijection(1..Len(s), Members(s))
      BY <1>1 DEF Members, Apart, Bijection, Injection, Surjection, IsInjective
    <2> QED  BY <2>1 DEF ExistsBijection
  <1>6. Cardinality(Members(s)) = Len(s)
    BY <1>1, <1>5, FS_CountingElements
  <1>7. Len(s) \in 0..Size
    BY <1>1, <1>4, <1>6
  <1> QED  BY <1>1, <1>7 DEF ElemLists, Apart, Size

\* What following the links gives.
LEMMA WalkIs ==
  ASSUME NEW f, NEW first, NEW end, end \notin BUCKETs,
         NEW s \in Seq(BUCKETs), Apart(s), Linked(f, first, end, s)
  PROVE  Walk(f, first, end) = s
  <1>1. s \in ElemLists
    BY ApartShort
  <1>2. PICK q : q = Walk(f, first, end)
    OBVIOUS
  <1>3. q \in ElemLists /\ Linked(f, first, end, q)
    BY <1>1, <1>2 DEF Walk
  <1>4. q \in Seq(BUCKETs)
    <2>1. PICK n \in 0..(chunk_group * MaxChunks) : q \in [1..n -> BUCKETs]
      BY <1>3 DEF ElemLists
    <2>2. n \in Nat
      BY <2>1, BucketsAre DEF Size
    <2> QED  BY <2>1, <2>2, SeqDef
  <1> QED  BY <1>2, <1>3, <1>4, LinkedOnce

----------------------------------------------------------------------------
(* The elements around the ring are different. *)
LEMMA RingFacts ==
  ASSUME NEW s \in Seq(BUCKETs), Apart(s)
  PROVE  /\ Len(s) \in Nat /\ Around(s, 0) = qctrl /\ Around(s, Len(s) + 1) = qctrl
         /\ \A i \in 1..Len(s) : Around(s, i) = s[i] /\ s[i] \in BUCKETs /\ s[i] # qctrl
         /\ \A i \in Int : Around(s, i) \in Places
         /\ \A i, j \in 0..Len(s) : Around(s, i) = Around(s, j) => i = j
         /\ \A i, j \in 1..(Len(s) + 1) : Around(s, i) = Around(s, j) => i = j
  <1>1. Len(s) \in Nat /\ \A i \in 1..Len(s) : s[i] \in BUCKETs
    BY ElementOfSeq
  <1>2. \A i \in 1..Len(s) : s[i] # qctrl
    BY <1>1, BucketsAre
  <1>3. ASSUME NEW i \in 0..Len(s), NEW j \in 0..Len(s), Around(s, i) = Around(s, j)
        PROVE  i = j
    BY <1>1, <1>2, <1>3 DEF Around, Apart
  <1>4. ASSUME NEW i \in 1..(Len(s) + 1), NEW j \in 1..(Len(s) + 1), Around(s, i) = Around(s, j)
        PROVE  i = j
    BY <1>1, <1>2, <1>4 DEF Around, Apart
  <1> QED  BY <1>1, <1>2, <1>3, <1>4 DEF Around, Places

LEMMA StepEnqueue ==
  ASSUME QTyped, NEW s, NEW p, QShape(s, p), NEW e \in BUCKETs, enQ(e)
  PROVE  QTyped' /\ QShape(Append(s, e), p)' /\ e \in users /\ users' = users \ {e}
  <1>1. /\ s \in Seq(BUCKETs) /\ p \in Seq(BUCKETs) /\ Apart(s) /\ Apart(p) /\ Ring(s) /\ count = Len(s)
        /\ Linked(prev, allocate, NULL_ELEM, p)
    BY DEF QShape
  <1>2. /\ e \in users /\ users' = users \ {e} /\ count' = count + 1
        /\ allocate' = allocate /\ chunks' = chunks
        /\ next' = [next EXCEPT ![e] = qctrl, ![prev[qctrl]] = e]
        /\ prev' = [prev EXCEPT ![e] = prev[qctrl], ![qctrl] = e]
    BY DEF enQ
  <1>3. e \notin Members(s) /\ e \notin Members(p) /\ e # qctrl
    BY <1>2, BucketsAre DEF QShape
  <1>4. PICK a, n : a = Append(s, e) /\ n = Len(s)
    OBVIOUS
  <1>5. /\ a \in Seq(BUCKETs) /\ n \in Nat /\ Len(a) = n + 1 /\ a[n + 1] = e
        /\ \A i \in 1..n : a[i] = s[i]
    BY <1>1, <1>4
  <1>6. /\ \A i \in 1..n : Around(s, i) = s[i] /\ s[i] \in BUCKETs /\ s[i] # qctrl /\ s[i] # e
        /\ Around(s, 0) = qctrl /\ Around(s, n + 1) = qctrl
    BY <1>1, <1>3, <1>4, RingFacts DEF Members
  <1>7. Apart(a)
    BY <1>1, <1>4, <1>5, <1>6 DEF Apart
  <1>8. /\ \A i \in 0..n : Around(a, i) = Around(s, i)
        /\ Around(a, n + 1) = e /\ Around(a, n + 2) = qctrl
    BY <1>4, <1>5 DEF Around
  <1>9. prev[qctrl] = Around(s, n) /\ Around(s, n) \in Places /\ Around(s, n) # e
    <2>1. prev[Around(s, n + 1)] = Around(s, n)
      BY <1>1, <1>4, <1>5 DEF Ring
    <2> QED  BY <1>1, <1>3, <1>5, <1>6, <2>1, RingFacts DEF Around
  <1>10. /\ e \in Places /\ qctrl \in Places
         /\ \A x \in Places : next'[x] = IF x = Around(s, n) THEN e ELSE IF x = e THEN qctrl ELSE next[x]
         /\ \A x \in Places : prev'[x] = IF x = qctrl THEN e ELSE IF x = e THEN Around(s, n) ELSE prev[x]
         /\ next' \in Links /\ prev' \in Links
    <2>1. e \in Places /\ qctrl \in Places /\ next \in Links /\ prev \in Links
      BY DEF Places, QTyped
    <2> QED  BY <1>2, <1>3, <1>9, <2>1 DEF Links
  <1>11. ASSUME NEW i \in 0..(n + 1)
         PROVE  next'[Around(a, i)] = Around(a, i + 1) /\ prev'[Around(a, i + 1)] = Around(a, i)
    <2>1. CASE i < n
      <3>1. i \in 0..n /\ i + 1 \in 1..n /\ i + 1 \in 0..n
        BY <1>5, <2>1
      <3>2. next[Around(s, i)] = Around(s, i + 1) /\ prev[Around(s, i + 1)] = Around(s, i)
        BY <1>1, <1>4, <3>1 DEF Ring
      <3>3. Around(s, i) # Around(s, n) /\ Around(s, i) # e /\ Around(s, i) \in Places
        BY <1>1, <1>3, <1>4, <1>5, <1>6, <2>1, <3>1, RingFacts DEF Around
      <3>4. Around(s, i + 1) = s[i + 1] /\ s[i + 1] # qctrl /\ s[i + 1] # e /\ s[i + 1] \in Places
        BY <1>6, <3>1 DEF Places
      <3> QED  BY <1>8, <1>10, <3>1, <3>2, <3>3, <3>4
    <2>2. CASE i = n
      BY <1>3, <1>5, <1>8, <1>9, <1>10, <2>2
    <2>3. CASE i = n + 1
      BY <1>3, <1>5, <1>8, <1>9, <1>10, <2>3
    <2> QED  BY <1>5, <2>1, <2>2, <2>3
  <1>12. Ring(a)'
    BY <1>5, <1>11 DEF Ring, Around
  <1>13. Linked(prev', allocate', NULL_ELEM, p)
    <2>1. \A i \in 1..Len(p) : p[i] \in BUCKETs /\ p[i] # e /\ p[i] # qctrl
      BY <1>1, <1>3, BucketsAre, ElementOfSeq DEF Members
    <2>2. \A i \in 1..Len(p) : prev'[p[i]] = prev[p[i]]
      BY <1>10, <2>1 DEF Places
    <2> QED  BY <1>1, <1>2, <2>2 DEF Linked
  <1>14. Members(a) = Members(s) \cup {e}
    BY <1>4, <1>5 DEF Members
  <1>15. QTyped'
    BY <1>2, <1>10 DEF QTyped
  <1>16. QShape(a, p)'
    BY <1>1, <1>2, <1>3, <1>4, <1>5, <1>7, <1>12, <1>13, <1>14 DEF QShape
  <1> QED  BY <1>2, <1>4, <1>15, <1>16

\* The sequence without its i-th element.
Drop(s, i) == [j \in 1..(Len(s) - 1) |-> IF j < i THEN s[j] ELSE s[j + 1]]

LEMMA DropFacts ==
  ASSUME NEW s \in Seq(BUCKETs), Apart(s), NEW k \in 1..Len(s)
  PROVE  /\ Drop(s, k) \in Seq(BUCKETs) /\ Len(Drop(s, k)) = Len(s) - 1 /\ Apart(Drop(s, k))
         /\ Members(Drop(s, k)) = Members(s) \ {s[k]}
         /\ \A j \in 0..Len(s) : Around(Drop(s, k), j) = IF j < k THEN Around(s, j) ELSE Around(s, j + 1)
  <1>1. PICK d, n : d = Drop(s, k) /\ n = Len(s)
    OBVIOUS
  <1>2. n \in Nat /\ n - 1 \in Nat /\ k \in 1..n /\ \A i \in 1..n : s[i] \in BUCKETs
    BY <1>1, ElementOfSeq
  <1>3. d = [j \in 1..(n - 1) |-> IF j < k THEN s[j] ELSE s[j + 1]]
    BY <1>1 DEF Drop
  <1>4. d \in [1..(n - 1) -> BUCKETs]
    BY <1>2, <1>3
  <1>5. d \in Seq(BUCKETs) /\ Len(d) = n - 1
    BY <1>2, <1>4, SeqDef, LenProperties
  <1>6. \A j \in 1..(n - 1) : d[j] = IF j < k THEN s[j] ELSE s[j + 1]
    BY <1>3
  <1>7. Apart(d)
    <2> SUFFICES ASSUME NEW i \in 1..(n - 1), NEW j \in 1..(n - 1), d[i] = d[j] PROVE i = j
      BY <1>5 DEF Apart
    <2> DEFINE I == IF i < k THEN i ELSE i + 1
               J == IF j < k THEN j ELSE j + 1
    <2>1. I \in 1..n /\ J \in 1..n /\ d[i] = s[I] /\ d[j] = s[J]
      BY <1>2, <1>6
    <2>2. I = J
      BY <1>1, <2>1 DEF Apart
    <2> QED  BY <1>2, <2>2
  <1>8. Members(d) = Members(s) \ {s[k]}
    <2>1. ASSUME NEW x \in Members(d) PROVE x \in Members(s) \ {s[k]}
      <3>1. PICK j \in 1..(n - 1) : x = d[j]
        BY <1>5 DEF Members
      <3> DEFINE J == IF j < k THEN j ELSE j + 1
      <3>2. J \in 1..n /\ x = s[J] /\ J # k
        BY <1>2, <1>6, <3>1
      <3>3. s[J] # s[k]
        BY <1>1, <3>2 DEF Apart
      <3> QED  BY <1>1, <3>2, <3>3 DEF Members
    <2>2. ASSUME NEW x \in Members(s), x # s[k] PROVE x \in Members(d)
      <3>1. PICK j \in 1..n : x = s[j]
        BY <1>1 DEF Members
      <3> DEFINE J == IF j < k THEN j ELSE j - 1
      <3>2. J \in 1..(n - 1)
        BY <1>2, <2>2, <3>1
      <3>3. x = d[J]
        BY <1>2, <1>6, <2>2, <3>1, <3>2
      <3> QED  BY <1>5, <3>2, <3>3 DEF Members
    <2> QED  BY <2>1, <2>2
  <1>9. ASSUME NEW j \in 0..n
        PROVE  Around(d, j) = IF j < k THEN Around(s, j) ELSE Around(s, j + 1)
    <2>1. CASE j \in 1..(n - 1)
      <3>1. Around(d, j) = d[j] /\ Around(s, j) = s[j] /\ Around(s, j + 1) = s[j + 1]
        BY <1>1, <1>2, <1>5, <2>1 DEF Around
      <3> QED  BY <1>6, <2>1, <3>1
    <2>2. CASE j = 0
      BY <1>1, <1>2, <1>5, <2>2 DEF Around
    <2>3. CASE j = n
      BY <1>1, <1>2, <1>5, <2>3 DEF Around
    <2> QED  BY <1>2, <2>1, <2>2, <2>3
  <1> QED  BY <1>1, <1>5, <1>7, <1>8, <1>9

LEMMA StepDelete ==
  ASSUME QTyped, NEW s, NEW p, QShape(s, p), NEW k \in 1..Len(s), Q_delElem(s[k])
  PROVE  QTyped' /\ QShape(Drop(s, k), p)' /\ users' = users \cup {s[k]}
  <1>1. /\ s \in Seq(BUCKETs) /\ p \in Seq(BUCKETs) /\ Apart(s) /\ Apart(p) /\ Ring(s) /\ count = Len(s)
        /\ Linked(prev, allocate, NULL_ELEM, p)
    BY DEF QShape
  <1>2. PICK e, n, d : e = s[k] /\ n = Len(s) /\ d = Drop(s, k)
    OBVIOUS
  <1>3. /\ next' = [next EXCEPT ![prev[e]] = next[e]] /\ prev' = [prev EXCEPT ![next[e]] = prev[e]]
        /\ count' = count - 1 /\ users' = users \cup {e} /\ allocate' = allocate /\ chunks' = chunks
    BY <1>2 DEF Q_delElem
  <1>4. n \in Nat /\ k \in 1..n /\ e = Around(s, k) /\ e \in BUCKETs /\ e \in Members(s)
    BY <1>1, <1>2, RingFacts DEF Members
  <1>5. /\ d \in Seq(BUCKETs) /\ Len(d) = n - 1 /\ Apart(d) /\ Members(d) = Members(s) \ {e}
        /\ \A j \in 0..n : Around(d, j) = IF j < k THEN Around(s, j) ELSE Around(s, j + 1)
    BY <1>1, <1>2, <1>4, DropFacts
  <1>6. /\ \A i \in 0..n : next[Around(s, i)] = Around(s, i + 1) /\ prev[Around(s, i + 1)] = Around(s, i)
        /\ \A i \in 0..(n + 1) : Around(s, i) \in Places
        /\ \A i, j \in 0..n : Around(s, i) = Around(s, j) => i = j
        /\ \A i, j \in 1..(n + 1) : Around(s, i) = Around(s, j) => i = j
    BY <1>1, <1>2, RingFacts DEF Ring
  <1>7. next[e] = Around(s, k + 1) /\ prev[e] = Around(s, k - 1)
    <2>1. k \in 0..n /\ k - 1 \in 0..n /\ (k - 1) + 1 = k
      BY <1>4
    <2> QED  BY <1>4, <1>6, <2>1
  <1>8. /\ \A x \in Places : next'[x] = IF x = Around(s, k - 1) THEN Around(s, k + 1) ELSE next[x]
        /\ \A x \in Places : prev'[x] = IF x = Around(s, k + 1) THEN Around(s, k - 1) ELSE prev[x]
        /\ next' \in Links /\ prev' \in Links
    <2>1. k - 1 \in 0..(n + 1) /\ k + 1 \in 0..(n + 1)
      BY <1>4
    <2>2. Around(s, k - 1) \in Places /\ Around(s, k + 1) \in Places
      BY <1>6, <2>1
    <2>3. next \in Links /\ prev \in Links
      BY DEF QTyped
    <2> QED  BY <1>3, <1>7, <2>2, <2>3 DEF Links
  <1>9. ASSUME NEW j \in 0..(n - 1)
        PROVE  next'[Around(d, j)] = Around(d, j + 1) /\ prev'[Around(d, j + 1)] = Around(d, j)
    <2>1. j \in 0..n /\ j + 1 \in 0..n
      BY <1>4
    <2>2. CASE j < k - 1
      <3>1. Around(d, j) = Around(s, j) /\ Around(d, j + 1) = Around(s, j + 1)
        BY <1>4, <1>5, <2>1, <2>2
      <3>2. Around(s, j) # Around(s, k - 1)
        BY <1>4, <1>6, <2>1, <2>2
      <3>3. Around(s, j + 1) # Around(s, k + 1)
        BY <1>4, <1>6, <2>1, <2>2
      <3>4. Around(s, j) \in Places /\ Around(s, j + 1) \in Places
        BY <1>4, <1>6, <2>1
      <3> QED  BY <1>6, <1>8, <2>1, <3>1, <3>2, <3>3, <3>4
    <2>3. CASE j = k - 1
      <3>1. Around(d, j) = Around(s, k - 1) /\ Around(d, j + 1) = Around(s, k + 1)
        BY <1>4, <1>5, <2>1, <2>3
      <3>2. Around(s, k - 1) \in Places /\ Around(s, k + 1) \in Places
        BY <1>4, <1>6
      <3> QED  BY <1>8, <3>1, <3>2
    <2>4. CASE j >= k
      <3>1. Around(d, j) = Around(s, j + 1) /\ Around(d, j + 1) = Around(s, (j + 1) + 1)
        BY <1>4, <1>5, <2>1, <2>4
      <3>2. Around(s, j + 1) # Around(s, k - 1)
        BY <1>4, <1>6, <2>1, <2>4
      <3>3. Around(s, (j + 1) + 1) # Around(s, k + 1)
        BY <1>4, <1>6, <2>1, <2>4
      <3>4. Around(s, j + 1) \in Places /\ Around(s, (j + 1) + 1) \in Places
        BY <1>4, <1>6, <2>1
      <3> QED  BY <1>6, <1>8, <2>1, <3>1, <3>2, <3>3, <3>4
    <2> QED  BY <1>4, <2>1, <2>2, <2>3, <2>4
  <1>10. Ring(d)'
    BY <1>5, <1>9 DEF Ring, Around
  <1>11. Linked(prev', allocate', NULL_ELEM, p)
    <2>1. \A i \in 1..Len(p) : p[i] \in BUCKETs /\ p[i] \notin Members(s) /\ p[i] # qctrl
      <3>1. Members(s) \cap Members(p) = {} /\ \A i \in 1..Len(p) : p[i] \in Members(p)
        BY DEF QShape, Members
      <3> QED  BY <1>1, <3>1, BucketsAre, ElementOfSeq
    <2>2. Around(s, k + 1) = qctrl \/ Around(s, k + 1) \in Members(s)
      BY <1>2 DEF Around, Members
    <2>3. \A i \in 1..Len(p) : prev'[p[i]] = prev[p[i]]
      BY <1>8, <2>1, <2>2 DEF Places
    <2> QED  BY <1>1, <1>3, <2>3 DEF Linked
  <1>12. QTyped'
    BY <1>3, <1>8 DEF QTyped
  <1>13. QShape(d, p)'
    <2>1. /\ Members(s) \cup Members(p) \cup users = 1..(chunks * chunk_group)
          /\ Members(s) \cap Members(p) = {} /\ Members(s) \cap users = {} /\ Members(p) \cap users = {}
      BY DEF QShape
    <2>2. /\ Members(d) \cup Members(p) \cup users' = 1..(chunks' * chunk_group)
          /\ Members(d) \cap Members(p) = {} /\ Members(d) \cap users' = {} /\ Members(p) \cap users' = {}
      BY <1>3, <1>4, <1>5, <2>1
    <2> QED  BY <1>1, <1>2, <1>3, <1>5, <1>10, <1>11, <2>2 DEF QShape
  <1> QED  BY <1>2, <1>3, <1>12, <1>13

\* What a step does that touches neither the ring nor the elements on it.
LEMMA RingKept ==
  ASSUME NEW s \in Seq(BUCKETs), Apart(s), Ring(s), NEW T, T \cap Members(s) = {}, qctrl \notin T,
         \A x \in Places \ T : next'[x] = next[x] /\ prev'[x] = prev[x]
  PROVE  Ring(s)'
  <1>1. \A i \in 0..(Len(s) + 1) : Around(s, i) \in Places \ T
    <2>1. \A i \in Int : Around(s, i) \in Places /\ (Around(s, i) = qctrl \/ Around(s, i) \in Members(s))
      BY RingFacts DEF Around, Members
    <2> QED  BY <2>1, RingFacts
  <1>2. \A i \in 0..Len(s) : i \in 0..(Len(s) + 1) /\ i + 1 \in 0..(Len(s) + 1)
    BY RingFacts
  <1>3. \A i \in 0..Len(s) : next'[Around(s, i)] = Around(s, i + 1) /\ prev'[Around(s, i + 1)] = Around(s, i)
    BY <1>1, <1>2 DEF Ring
  <1> QED  BY <1>3 DEF Ring, Around

LEMMA StepFree ==
  ASSUME QTyped, NEW s, NEW p, QShape(s, p), NEW e \in BUCKETs, Q_freeElem(e)
  PROVE  QTyped' /\ QShape(s, <<e>> \o p)' /\ e \in users /\ users' = users \ {e}
  <1>1. /\ s \in Seq(BUCKETs) /\ p \in Seq(BUCKETs) /\ Apart(s) /\ Apart(p) /\ Ring(s) /\ count = Len(s)
        /\ Linked(prev, allocate, NULL_ELEM, p)
    BY DEF QShape
  <1>2. /\ e \in users /\ users' = users \ {e} /\ prev' = [prev EXCEPT ![e] = allocate] /\ allocate' = e
        /\ next' = next /\ count' = count /\ chunks' = chunks
    BY DEF Q_freeElem
  <1>3. e \notin Members(s) /\ e \notin Members(p) /\ e # qctrl /\ e \in Places /\ qctrl \in Places
    BY <1>2, BucketsAre DEF QShape, Places
  <1>4. PICK q, n : q = <<e>> \o p /\ n = Len(p)
    OBVIOUS
  <1>5. /\ q \in Seq(BUCKETs) /\ n \in Nat /\ Len(q) = n + 1 /\ q[1] = e
        /\ \A i \in 2..(n + 1) : q[i] = p[i - 1]
        /\ \A i \in 1..n : p[i] \in BUCKETs /\ p[i] # e /\ p[i] \in Places
    BY <1>1, <1>3, <1>4 DEF Members, Places
  <1>6. allocate \in Places \cup {NULL_ELEM}
    BY <1>1, <1>4, <1>5 DEF Linked
  <1>7. prev' \in Links /\ prev'[e] = allocate /\ \A x \in Places \ {e} : prev'[x] = prev[x]
    BY <1>2, <1>3, <1>6 DEF QTyped, Links
  <1>8. Apart(q)
    <2> SUFFICES ASSUME NEW i \in 1..(n + 1), NEW j \in 1..(n + 1), q[i] = q[j] PROVE i = j
      BY <1>5 DEF Apart
    <2>1. CASE i = 1 \/ j = 1
      BY <1>5, <2>1
    <2>2. CASE i # 1 /\ j # 1
      <3>1. i - 1 \in 1..n /\ j - 1 \in 1..n /\ p[i - 1] = p[j - 1]
        BY <1>5, <2>2
      <3>2. i - 1 = j - 1
        BY <1>1, <1>4, <3>1 DEF Apart
      <3> QED  BY <3>2
    <2> QED  BY <2>1, <2>2
  <1>9. Linked(prev', allocate', NULL_ELEM, q)
    <2>1. allocate' = IF q = <<>> THEN NULL_ELEM ELSE q[1]
      BY <1>2, <1>5
    <2>2. ASSUME NEW i \in 1..(n + 1)
          PROVE  prev'[q[i]] = IF i = n + 1 THEN NULL_ELEM ELSE q[i + 1]
      <3>1. CASE i = 1
        <4>1. prev'[q[i]] = allocate
          BY <1>5, <1>7, <3>1
        <4>2. CASE n = 0
          <5>1. p = <<>>
            BY <1>1, <1>4, <4>2, EmptySeq
          <5>2. allocate = NULL_ELEM
            BY <1>1, <5>1 DEF Linked
          <5> QED  BY <3>1, <4>1, <4>2, <5>2
        <4>3. CASE n # 0
          <5>1. allocate = p[1] /\ q[2] = p[1]
            BY <1>1, <1>4, <1>5, <4>3 DEF Linked
          <5> QED  BY <1>5, <3>1, <4>1, <4>3, <5>1
        <4> QED  BY <4>2, <4>3
      <3>2. CASE i # 1
        <4>1. i - 1 \in 1..n /\ q[i] = p[i - 1] /\ (i - 1) + 1 = i
          BY <1>5, <3>2
        <4>2. prev'[q[i]] = IF i - 1 = n THEN NULL_ELEM ELSE p[i]
          BY <1>1, <1>4, <1>5, <1>7, <4>1 DEF Linked
        <4>3. i # n + 1 => q[i + 1] = p[i]
          BY <1>5, <3>2
        <4> QED  BY <1>5, <4>1, <4>2, <4>3
      <3> QED  BY <3>1, <3>2
    <2> QED  BY <1>5, <2>1, <2>2 DEF Linked
  <1>10. Members(q) = Members(p) \cup {e}
    <2>1. ASSUME NEW x \in Members(q) PROVE x \in Members(p) \cup {e}
      <3>1. PICK i \in 1..(n + 1) : x = q[i]
        BY <1>5 DEF Members
      <3>2. CASE i # 1
        <4>1. i - 1 \in 1..n /\ x = p[i - 1]
          BY <1>5, <3>1, <3>2
        <4> QED  BY <1>4, <4>1 DEF Members
      <3> QED  BY <1>5, <3>1, <3>2
    <2>2. ASSUME NEW x \in Members(p) PROVE x \in Members(q)
      <3>1. PICK i \in 1..n : x = p[i]
        BY <1>4 DEF Members
      <3>2. i + 1 \in 2..(n + 1) /\ (i + 1) - 1 = i /\ i + 1 \in 1..(n + 1)
        BY <1>5
      <3>3. x = q[i + 1]
        BY <1>5, <3>1, <3>2
      <3> QED  BY <1>5, <3>2, <3>3 DEF Members
    <2>3. e \in Members(q)
      <3>1. 1 \in 1..Len(q)
        BY <1>5
      <3> QED  BY <1>5, <3>1 DEF Members
    <2> QED  BY <2>1, <2>2, <2>3
  <1>11. Ring(s)'
    <2>1. {e} \cap Members(s) = {} /\ qctrl \notin {e}
      BY <1>3
    <2>2. \A x \in Places \ {e} : next'[x] = next[x] /\ prev'[x] = prev[x]
      BY <1>2, <1>7
    <2> QED  BY <1>1, <2>1, <2>2, RingKept
  <1>12. QTyped'
    BY <1>2, <1>7 DEF QTyped
  <1>13. QShape(s, q)'
    <2>1. /\ Members(s) \cup Members(p) \cup users = 1..(chunks * chunk_group)
          /\ Members(s) \cap Members(p) = {} /\ Members(s) \cap users = {} /\ Members(p) \cap users = {}
      BY DEF QShape
    <2>2. /\ Members(s) \cup Members(q) \cup users' = 1..(chunks' * chunk_group)
          /\ Members(s) \cap Members(q) = {} /\ Members(s) \cap users' = {} /\ Members(q) \cap users' = {}
      BY <1>2, <1>3, <1>10, <2>1
    <2> QED  BY <1>1, <1>2, <1>5, <1>8, <1>9, <1>11, <2>2 DEF QShape
  <1> QED  BY <1>2, <1>4, <1>12, <1>13

\* A non-empty pool gives its first element.
LEMMA StepNewPooled ==
  ASSUME QTyped, NEW s, NEW p, QShape(s, p), Q_newElem, allocate # NULL_ELEM
  PROVE  /\ QTyped' /\ \E q : QShape(s, q)'
         /\ \E e \in BUCKETs : e \notin users \cup Members(s) /\ users' = users \cup {e}
  <1>1. /\ s \in Seq(BUCKETs) /\ p \in Seq(BUCKETs) /\ Apart(s) /\ Apart(p) /\ Ring(s) /\ count = Len(s)
        /\ Linked(prev, allocate, NULL_ELEM, p)
    BY DEF QShape
  <1>2. PICK e, n, q : e = allocate /\ n = Len(p) /\ q = Tail(p)
    OBVIOUS
  <1>3. /\ allocate' = prev[e] /\ prev' = prev /\ chunks' = chunks
        /\ next' = [next EXCEPT ![e] = NULL_ELEM] /\ users' = users \cup {e} /\ count' = count
    BY <1>2 DEF Q_newElem
  <1>4. p # <<>> /\ e = p[1]
    BY <1>1, <1>2 DEF Linked
  <1>5. /\ n \in Nat /\ n >= 1 /\ \A i \in 1..n : p[i] \in BUCKETs
        /\ q \in Seq(BUCKETs) /\ Len(q) = n - 1 /\ \A i \in 1..(n - 1) : q[i] = p[i + 1]
    BY <1>1, <1>2, <1>4
  <1>6. 1 \in 1..n /\ e \in BUCKETs /\ e \in Members(p)
    BY <1>2, <1>4, <1>5 DEF Members
  <1>7. e \notin Members(s) /\ e \notin users
    BY <1>6 DEF QShape
  <1>8. e \in Places /\ e # qctrl
    BY <1>6, BucketsAre DEF Places
  <1>9. next' \in Links /\ \A x \in Places \ {e} : next'[x] = next[x] /\ prev'[x] = prev[x]
    BY <1>3, <1>8 DEF QTyped, Links
  <1>10. Ring(s)'
    <2>1. {e} \cap Members(s) = {} /\ qctrl \notin {e}
      BY <1>7, <1>8
    <2> QED  BY <1>1, <1>9, <2>1, RingKept
  <1>11. Apart(q)
    <2> SUFFICES ASSUME NEW i \in 1..(n - 1), NEW j \in 1..(n - 1), q[i] = q[j] PROVE i = j
      BY <1>5 DEF Apart
    <2>1. i + 1 \in 1..n /\ j + 1 \in 1..n /\ p[i + 1] = p[j + 1]
      BY <1>5
    <2>2. i + 1 = j + 1
      BY <1>1, <1>2, <2>1 DEF Apart
    <2> QED  BY <2>2
  <1>12. Members(q) = Members(p) \ {e}
    <2>1. ASSUME NEW x \in Members(q) PROVE x \in Members(p) \ {e}
      <3>1. PICK i \in 1..(n - 1) : x = q[i]
        BY <1>5 DEF Members
      <3>2. i + 1 \in 1..n /\ x = p[i + 1] /\ i + 1 # 1
        BY <1>5, <3>1
      <3>3. p[i + 1] # p[1]
        BY <1>1, <1>2, <1>6, <3>2 DEF Apart
      <3> QED  BY <1>2, <1>4, <3>2, <3>3 DEF Members
    <2>2. ASSUME NEW x \in Members(p), x # e PROVE x \in Members(q)
      <3>1. PICK i \in 1..n : x = p[i]
        BY <1>2 DEF Members
      <3>2. i - 1 \in 1..(n - 1) /\ (i - 1) + 1 = i
        BY <1>4, <1>5, <2>2, <3>1
      <3>3. x = q[i - 1]
        BY <1>5, <3>1, <3>2
      <3> QED  BY <1>5, <3>2, <3>3 DEF Members
    <2> QED  BY <2>1, <2>2
  <1>13. Linked(prev', allocate', NULL_ELEM, q)
    <2>1. \A i \in 1..n : prev[p[i]] = IF i = n THEN NULL_ELEM ELSE p[i + 1]
      BY <1>1, <1>2 DEF Linked
    <2>2. allocate' = IF q = <<>> THEN NULL_ELEM ELSE q[1]
      <3>1. prev[e] = IF 1 = n THEN NULL_ELEM ELSE p[2]
        BY <1>4, <1>6, <2>1
      <3>2. CASE n = 1
        <4>1. q = <<>>
          BY <1>5, <3>2, EmptySeq
        <4> QED  BY <1>3, <3>1, <3>2, <4>1
      <3>3. CASE n # 1
        <4>1. 1 \in 1..(n - 1) /\ q # <<>> /\ q[1] = p[2]
          BY <1>5, <3>3
        <4> QED  BY <1>3, <3>1, <3>3, <4>1
      <3> QED  BY <3>2, <3>3
    <2>3. ASSUME NEW i \in 1..(n - 1)
          PROVE  prev'[q[i]] = IF i = n - 1 THEN NULL_ELEM ELSE q[i + 1]
      <3>1. i + 1 \in 1..n /\ q[i] = p[i + 1]
        BY <1>5
      <3>2. prev[p[i + 1]] = IF i + 1 = n THEN NULL_ELEM ELSE p[(i + 1) + 1]
        BY <2>1, <3>1
      <3>3. i # n - 1 => i + 1 \in 1..(n - 1)
        BY <1>5
      <3>4. i # n - 1 => q[i + 1] = p[(i + 1) + 1]
        BY <1>5, <3>3
      <3>5. i = n - 1 <=> i + 1 = n
        BY <1>5
      <3> QED  BY <1>3, <3>1, <3>2, <3>4, <3>5
    <2> QED  BY <1>5, <2>2, <2>3 DEF Linked
  <1>14. QTyped'
    BY <1>3, <1>9 DEF QTyped
  <1>15. QShape(s, q)'
    <2>1. /\ Members(s) \cup Members(p) \cup users = 1..(chunks * chunk_group)
          /\ Members(s) \cap Members(p) = {} /\ Members(s) \cap users = {} /\ Members(p) \cap users = {}
      BY DEF QShape
    <2>2. /\ Members(s) \cup Members(q) \cup users' = 1..(chunks' * chunk_group)
          /\ Members(s) \cap Members(q) = {} /\ Members(s) \cap users' = {} /\ Members(q) \cap users' = {}
      BY <1>3, <1>6, <1>7, <1>12, <2>1
    <2> QED  BY <1>1, <1>3, <1>5, <1>10, <1>11, <1>13, <2>2 DEF QShape
  <1> QED  BY <1>2, <1>3, <1>6, <1>7, <1>14, <1>15

\* The free list of a chunk whose first element is already taken.
Fresh(base) == [i \in 1..(chunk_group - 1) |-> base + 1 + i]

LEMMA FreshFacts ==
  ASSUME NEW base \in Nat, base + chunk_group <= Size
  PROVE  /\ Fresh(base) \in Seq(BUCKETs) /\ Len(Fresh(base)) = chunk_group - 1 /\ Apart(Fresh(base))
         /\ \A i \in 1..(chunk_group - 1) : Fresh(base)[i] = base + 1 + i
         /\ Members(Fresh(base)) = (base + 2)..(base + chunk_group)
         /\ chunk_group \in Nat /\ chunk_group >= 2
         /\ base + 1 \in BUCKETs
  <1>1. chunk_group \in Nat /\ chunk_group >= 2 /\ Size \in Nat /\ BUCKETs = 1..Size
    BY QueueAssumption, BucketsAre
  <1>2. PICK q, m : q = Fresh(base) /\ m = chunk_group - 1
    OBVIOUS
  <1>3. m \in Nat /\ q = [i \in 1..m |-> base + 1 + i]
    BY <1>1, <1>2 DEF Fresh
  <1>4. q \in [1..m -> BUCKETs] /\ \A i \in 1..m : q[i] = base + 1 + i
    BY <1>1, <1>2, <1>3
  <1>5. q \in Seq(BUCKETs) /\ Len(q) = m
    <2>1. q \in Seq(BUCKETs)
      BY <1>3, <1>4, SeqDef
    <2>2. Len(q) \in Nat /\ DOMAIN q = 1..Len(q) /\ DOMAIN q = 1..m
      BY <1>4, <2>1, LenProperties
    <2> QED  BY <1>3, <2>1, <2>2
  <1>6. Apart(q)
    BY <1>4, <1>5 DEF Apart
  <1>7. Members(q) = (base + 2)..(base + chunk_group)
    <2>1. ASSUME NEW x \in Members(q) PROVE x \in (base + 2)..(base + chunk_group)
      <3>1. PICK i \in 1..m : x = q[i]
        BY <1>5 DEF Members
      <3> QED  BY <1>1, <1>2, <1>4, <3>1
    <2>2. ASSUME NEW x \in (base + 2)..(base + chunk_group) PROVE x \in Members(q)
      <3>1. x - base - 1 \in 1..m /\ base + 1 + (x - base - 1) = x
        BY <1>1, <1>2
      <3>2. q[x - base - 1] = x
        BY <1>4, <3>1
      <3> QED  BY <1>5, <3>1, <3>2 DEF Members
    <2> QED  BY <2>1, <2>2
  <1> QED  BY <1>1, <1>2, <1>4, <1>5, <1>6, <1>7

\* What ChunkPrev links.
LEMMA FreshLinked ==
  ASSUME NEW base \in Nat, base + chunk_group <= Size, NEW f \in Links
  PROVE  /\ ChunkPrev(f, base) \in Links
         /\ \A x \in Places \ (base + 2)..(base + chunk_group) : ChunkPrev(f, base)[x] = f[x]
         /\ Linked(ChunkPrev(f, base), base + 2, NULL_ELEM, Fresh(base))
  <1>1. /\ Fresh(base) \in Seq(BUCKETs) /\ Len(Fresh(base)) = chunk_group - 1
        /\ \A i \in 1..(chunk_group - 1) : Fresh(base)[i] = base + 1 + i
        /\ chunk_group \in Nat /\ chunk_group >= 2
    BY FreshFacts
  <1>2. Size \in Nat /\ BUCKETs = 1..Size
    BY BucketsAre
  <1>3. PICK c, q : c = ChunkPrev(f, base) /\ q = Fresh(base)
    OBVIOUS
  <1>4. c = [b \in Places |-> IF b \in (base + 2)..(base + chunk_group)
                              THEN (IF b = base + chunk_group THEN NULL_ELEM ELSE b + 1) ELSE f[b]]
    BY <1>3 DEF ChunkPrev, Links
  <1>5. \A b \in (base + 2)..(base + chunk_group) :
          b \in Places /\ (b # base + chunk_group => b + 1 \in Places)
    BY <1>1, <1>2 DEF Places
  <1>6. c \in Links
    BY <1>4, <1>5 DEF Links
  <1>7. \A x \in Places \ (base + 2)..(base + chunk_group) : c[x] = f[x]
    BY <1>4
  <1>8. Linked(c, base + 2, NULL_ELEM, q)
    <2>1. q # <<>> /\ q[1] = base + 2
      BY <1>1, <1>3
    <2>2. ASSUME NEW i \in 1..Len(q)
          PROVE  c[q[i]] = IF i = Len(q) THEN NULL_ELEM ELSE q[i + 1]
      <3>1. i \in 1..(chunk_group - 1) /\ q[i] = base + 1 + i /\ q[i] \in (base + 2)..(base + chunk_group)
        BY <1>1, <1>3
      <3>2. c[q[i]] = IF q[i] = base + chunk_group THEN NULL_ELEM ELSE q[i] + 1
        BY <1>4, <1>5, <3>1
      <3>3. i = Len(q) <=> q[i] = base + chunk_group
        BY <1>1, <1>3, <3>1
      <3>4. i # Len(q) => q[i + 1] = q[i] + 1
        BY <1>1, <1>3, <3>1
      <3> QED  BY <3>2, <3>3, <3>4
    <2> QED  BY <2>1, <2>2 DEF Linked
  <1> QED  BY <1>3, <1>6, <1>7, <1>8

\* An empty pool gets the rest of a new chunk.
LEMMA StepNewChunk ==
  ASSUME QTyped, NEW s, NEW p, QShape(s, p), Q_newElem, allocate = NULL_ELEM
  PROVE  /\ QTyped' /\ \E q : QShape(s, q)'
         /\ \E e \in BUCKETs : e \notin users \cup Members(s) /\ users' = users \cup {e}
  <1>1. /\ s \in Seq(BUCKETs) /\ p \in Seq(BUCKETs) /\ Apart(s) /\ Apart(p) /\ Ring(s) /\ count = Len(s)
        /\ Linked(prev, allocate, NULL_ELEM, p)
    BY DEF QShape
  <1>2. PICK base, e, q : base = chunks * chunk_group /\ e = base + 1 /\ q = Fresh(base)
    OBVIOUS
  <1>3. /\ chunks < MaxChunks /\ prev' = ChunkPrev(prev, base) /\ allocate' = base + 2
        /\ chunks' = chunks + 1 /\ next' = [next EXCEPT ![e] = NULL_ELEM]
        /\ users' = users \cup {e} /\ count' = count
    BY <1>2 DEF Q_newElem, ChunkAllocate
  <1>4. /\ chunks \in 1..MaxChunks /\ chunks' \in 1..MaxChunks /\ base \in Nat
        /\ base + chunk_group <= Size /\ chunks' * chunk_group = base + chunk_group
    <2>1. chunks \in 1..MaxChunks /\ MaxChunks \in Nat
      BY QueueAssumption DEF QTyped
    <2>2. chunks' \in 1..MaxChunks
      BY <1>3, <2>1
    <2> QED  BY <1>2, <1>3, <2>1, <2>2, ChunksFit
  <1>5. /\ q \in Seq(BUCKETs) /\ Apart(q) /\ Members(q) = (base + 2)..(base + chunk_group)
        /\ chunk_group \in Nat /\ chunk_group >= 2 /\ e \in BUCKETs
    BY <1>2, <1>4, FreshFacts
  <1>6. /\ prev' \in Links /\ Linked(prev', allocate', NULL_ELEM, q)
        /\ \A x \in Places \ (base + 2)..(base + chunk_group) : prev'[x] = prev[x]
    BY <1>2, <1>3, <1>4, FreshLinked DEF QTyped
  <1>7. p = <<>> /\ Members(p) = {}
    <2>1. p = <<>>
      <3> SUFFICES ASSUME p # <<>> PROVE FALSE
        OBVIOUS
      <3>1. p[1] = NULL_ELEM /\ p[1] \in BUCKETs
        BY <1>1, ElementOfSeq DEF Linked
      <3> QED  BY <3>1, BucketsAre
    <2> QED  BY <2>1 DEF Members
  <1>8. Members(s) \cup users = 1..base /\ Members(s) \cap users = {}
    BY <1>2, <1>7 DEF QShape
  <1>9. e \notin Members(s) /\ e \notin users /\ e \in Places /\ e # qctrl
    BY <1>2, <1>4, <1>5, <1>8, BucketsAre DEF Places
  <1>10. next' \in Links /\ \A x \in Places \ {e} : next'[x] = next[x]
    BY <1>3, <1>9 DEF QTyped, Links
  <1>11. Ring(s)'
    <2> DEFINE T == {e} \cup (base + 2)..(base + chunk_group)
    <2>1. T \cap Members(s) = {} /\ qctrl \notin T
      <3>1. \A x \in T : x \notin 1..base
        BY <1>2, <1>4, <1>5
      <3>2. qctrl \notin T
        BY <1>4, <1>5, <1>9 DEF qctrl
      <3> QED  BY <1>8, <3>1, <3>2
    <2>2. \A x \in Places \ T : next'[x] = next[x] /\ prev'[x] = prev[x]
      BY <1>6, <1>10
    <2> HIDE DEF T
    <2> QED  BY <1>1, <2>1, <2>2, RingKept
  <1>12. QTyped'
    BY <1>4, <1>6, <1>10 DEF QTyped
  <1>13. /\ Members(s) \cup Members(q) \cup users' = 1..(chunks' * chunk_group)
         /\ Members(s) \cap Members(q) = {} /\ Members(s) \cap users' = {} /\ Members(q) \cap users' = {}
    <2>1. 1..(base + chunk_group) = 1..base \cup {e} \cup (base + 2)..(base + chunk_group)
      BY <1>2, <1>4, <1>5
    <2>2. e \notin (base + 2)..(base + chunk_group) /\ 1..base \cap (base + 2)..(base + chunk_group) = {}
      BY <1>2, <1>4, <1>5
    <2> QED  BY <1>3, <1>4, <1>5, <1>8, <1>9, <2>1, <2>2
  <1>14. QShape(s, q)'
    BY <1>1, <1>3, <1>5, <1>6, <1>11, <1>13 DEF QShape
  <1> QED  BY <1>2, <1>3, <1>5, <1>9, <1>12, <1>14

LEMMA QueueInit ==
  ASSUME QInit
  PROVE  QTyped /\ \E p : QShape(<< >>, p)
  <1>1. chunk_group \in Nat /\ chunk_group >= 2 /\ MaxChunks \in Nat /\ MaxChunks >= 1 /\ 1 \in 1..MaxChunks
    BY QueueAssumption
  <1>2. /\ Size \in Nat /\ BUCKETs = 1..Size /\ chunk_group <= Size /\ 1 * chunk_group = chunk_group
        /\ 0 + chunk_group <= Size
    BY <1>1, ChunksFit
  <1>3. PICK p : p = [i \in 1..chunk_group |-> i]
    OBVIOUS
  <1>4. /\ p \in Seq(BUCKETs) /\ Len(p) = chunk_group /\ \A i \in 1..chunk_group : p[i] = i
    <2>1. p \in [1..chunk_group -> BUCKETs] /\ \A i \in 1..chunk_group : p[i] = i
      BY <1>1, <1>2, <1>3
    <2>2. p \in Seq(BUCKETs)
      BY <1>1, <2>1, SeqDef
    <2>3. Len(p) \in Nat /\ DOMAIN p = 1..Len(p) /\ DOMAIN p = 1..chunk_group
      BY <2>1, <2>2, LenProperties
    <2> QED  BY <1>1, <2>1, <2>2, <2>3
  <1>5. Apart(p) /\ Members(p) = 1..chunk_group
    BY <1>4 DEF Apart, Members
  <1> DEFINE f == [b \in Places |-> IF b = qctrl THEN qctrl ELSE NULL_ELEM]
  <1>6. /\ f \in Links /\ next = f /\ prev = [ChunkPrev(f, 0) EXCEPT ![1] = 2]
        /\ count = 0 /\ allocate = 1 /\ chunks = 1 /\ users = {}
    BY DEF QInit, Links, Places
  <1>7. /\ ChunkPrev(f, 0) \in Links
        /\ \A x \in Places \ 2..chunk_group : ChunkPrev(f, 0)[x] = f[x]
        /\ \A x \in Places : x \in 2..chunk_group =>
             ChunkPrev(f, 0)[x] = IF x = chunk_group THEN NULL_ELEM ELSE x + 1
    <2>1. /\ ChunkPrev(f, 0) \in Links
          /\ \A x \in Places \ (0 + 2)..(0 + chunk_group) : ChunkPrev(f, 0)[x] = f[x]
      BY <1>2, <1>6, FreshLinked
    <2>2. ChunkPrev(f, 0) = [b \in Places |-> IF b \in (0 + 2)..(0 + chunk_group)
                              THEN (IF b = 0 + chunk_group THEN NULL_ELEM ELSE b + 1) ELSE f[b]]
      BY DEF ChunkPrev
    <2>3. 0 + 2 = 2 /\ 0 + chunk_group = chunk_group
      BY <1>1
    <2> QED  BY <2>1, <2>2, <2>3
  <1>8. 1 \in Places /\ 2 \in Places /\ qctrl \in Places /\ 1 # qctrl /\ qctrl \notin 2..chunk_group
    BY <1>1, <1>2 DEF Places, qctrl
  <1>9. prev \in Links /\ prev[qctrl] = qctrl /\ prev[1] = 2
        /\ \A x \in Places : x \in 2..chunk_group => prev[x] = IF x = chunk_group THEN NULL_ELEM ELSE x + 1
    <2>1. \A x \in Places : prev[x] = IF x = 1 THEN 2 ELSE ChunkPrev(f, 0)[x]
      BY <1>6, <1>7, <1>8 DEF Links
    <2>2. prev \in Links
      BY <1>6, <1>7, <1>8 DEF Links
    <2>3. prev[qctrl] = f[qctrl] /\ f[qctrl] = qctrl
      BY <1>7, <1>8, <2>1
    <2>4. \A x \in Places : x \in 2..chunk_group => x # 1
      BY <1>1
    <2> QED  BY <1>7, <1>8, <2>1, <2>2, <2>3, <2>4
  <1>10. next[qctrl] = qctrl
    BY <1>6, <1>8
  <1>11. QTyped
    BY <1>1, <1>6, <1>9 DEF QTyped
  <1>12. Linked(prev, allocate, NULL_ELEM, p)
    <2>1. p # <<>> /\ p[1] = 1
      BY <1>1, <1>4
    <2>2. ASSUME NEW i \in 1..chunk_group
          PROVE  prev[p[i]] = IF i = chunk_group THEN NULL_ELEM ELSE p[i + 1]
      <3>1. p[i] = i /\ i \in Places /\ (i = 1 \/ i \in 2..chunk_group)
            /\ (i # chunk_group => i + 1 \in 1..chunk_group)
        BY <1>1, <1>2, <1>4 DEF Places
      <3>2. i # chunk_group => p[i + 1] = i + 1
        BY <1>4, <3>1
      <3>3. CASE i = 1
        BY <1>1, <1>9, <3>1, <3>2, <3>3
      <3>4. CASE i \in 2..chunk_group
        BY <1>9, <3>1, <3>2, <3>4
      <3> QED  BY <3>1, <3>3, <3>4
    <2> QED  BY <1>4, <1>6, <2>1, <2>2 DEF Linked
  <1>13. << >> \in Seq(BUCKETs) /\ Len(<< >>) = 0 /\ Members(<< >>) = {} /\ Apart(<< >>)
    BY DEF Members, Apart
  <1>14. Ring(<< >>)
    <2>1. \A i \in Int : Around(<< >>, i) = qctrl
      BY DEF Around
    <2> QED  BY <1>9, <1>10, <1>13, <2>1 DEF Ring
  <1>15. QShape(<< >>, p)
    BY <1>2, <1>4, <1>5, <1>6, <1>12, <1>13, <1>14 DEF QShape
  <1> QED  BY <1>11, <1>15

----------------------------------------------------------------------------
(* What the walks of the code see. *)
Backwards(s) == [n \in 1..Len(s) |-> s[Len(s) + 1 - n]]

LEMMA RingWalk ==
  ASSUME NEW f, NEW g, NEW s \in Seq(BUCKETs), Apart(s),
         \A i \in 0..Len(s) : f[Around(s, i)] = Around(s, i + 1) /\ g[Around(s, i + 1)] = Around(s, i)
  PROVE  /\ Walk(f, f[qctrl], qctrl) = s
         /\ Walk(g, g[qctrl], qctrl) = Backwards(s)
         /\ f[qctrl] = Around(s, 1) /\ g[qctrl] = Around(s, Len(s))
  <1>1. PICK n, r : n = Len(s) /\ r = Backwards(s)
    OBVIOUS
  <1>2. /\ n \in Nat /\ Around(s, 0) = qctrl /\ Around(s, n + 1) = qctrl
        /\ \A i \in 1..n : Around(s, i) = s[i] /\ s[i] \in BUCKETs /\ s[i] # qctrl
    BY <1>1, RingFacts
  <1>3. qctrl \notin BUCKETs
    BY BucketsAre
  <1>4. f[qctrl] = Around(s, 1) /\ g[qctrl] = Around(s, n)
    <2>1. 0 \in 0..n /\ n \in 0..n /\ 0 + 1 = 1
      BY <1>2
    <2> QED  BY <1>1, <1>2, <2>1
  <1>5. Linked(f, f[qctrl], qctrl, s)
    <2>1. f[qctrl] = IF s = <<>> THEN qctrl ELSE s[1]
      BY <1>1, <1>2, <1>4 DEF Around
    <2>2. ASSUME NEW i \in 1..n PROVE f[s[i]] = IF i = n THEN qctrl ELSE s[i + 1]
      <3>1. i \in 0..n /\ (i # n => i + 1 \in 1..n)
        BY <1>2
      <3>2. f[s[i]] = Around(s, i + 1)
        BY <1>1, <1>2, <3>1
      <3> QED  BY <1>2, <3>1, <3>2
    <2> QED  BY <1>1, <2>1, <2>2 DEF Linked
  <1>6. /\ r \in Seq(BUCKETs) /\ Len(r) = n /\ \A i \in 1..n : r[i] = s[n + 1 - i]
    <2>1. r = [i \in 1..n |-> s[n + 1 - i]]
      BY <1>1 DEF Backwards
    <2>2. r \in [1..n -> BUCKETs]
      BY <1>2, <2>1
    <2>3. r \in Seq(BUCKETs)
      BY <1>2, <2>2, SeqDef
    <2>4. Len(r) \in Nat /\ DOMAIN r = 1..Len(r) /\ DOMAIN r = 1..n
      BY <2>2, <2>3, LenProperties
    <2> QED  BY <1>2, <2>1, <2>3, <2>4
  <1>7. Apart(r)
    <2> SUFFICES ASSUME NEW i \in 1..n, NEW j \in 1..n, r[i] = r[j] PROVE i = j
      BY <1>6 DEF Apart
    <2>1. n + 1 - i \in 1..n /\ n + 1 - j \in 1..n /\ s[n + 1 - i] = s[n + 1 - j]
      BY <1>2, <1>6
    <2>2. n + 1 - i = n + 1 - j
      BY <1>1, <2>1 DEF Apart
    <2> QED  BY <1>2, <2>2
  <1>8. Linked(g, g[qctrl], qctrl, r)
    <2>1. g[qctrl] = IF r = <<>> THEN qctrl ELSE r[1]
      <3>1. CASE n = 0
        <4>1. r = <<>>
          BY <1>6, <3>1, EmptySeq
        <4> QED  BY <1>2, <1>4, <3>1, <4>1
      <3>2. CASE n # 0
        <4>1. r # <<>> /\ 1 \in 1..n /\ n \in 1..n /\ n + 1 - 1 = n
          BY <1>2, <1>6, <3>2
        <4> QED  BY <1>2, <1>4, <1>6, <4>1
      <3> QED  BY <3>1, <3>2
    <2>2. ASSUME NEW i \in 1..n PROVE g[r[i]] = IF i = n THEN qctrl ELSE r[i + 1]
      <3>1. /\ n + 1 - i \in 1..n /\ n - i \in 0..n /\ (n - i) + 1 = n + 1 - i
            /\ (i # n => i + 1 \in 1..n /\ n - i \in 1..n /\ n + 1 - (i + 1) = n - i)
            /\ (i = n => n - i = 0)
        BY <1>2
      <3>2. r[i] = Around(s, (n - i) + 1)
        BY <1>2, <1>6, <3>1
      <3>3. g[r[i]] = Around(s, n - i)
        BY <1>1, <3>1, <3>2
      <3>4. i # n => r[i + 1] = s[n - i] /\ Around(s, n - i) = s[n - i]
        BY <1>2, <1>6, <3>1
      <3> QED  BY <1>2, <3>1, <3>3, <3>4
    <2> QED  BY <1>6, <2>1, <2>2 DEF Linked
  <1> QED  BY <1>1, <1>3, <1>4, <1>5, <1>6, <1>7, <1>8, WalkIs

LEMMA InQueueIs ==
  ASSUME NEW s, NEW p, QShape(s, p)
  PROVE  InQueue = s
  BY RingWalk DEF QShape, Ring, InQueue

LEMMA InQueueIsNext ==
  ASSUME NEW s, NEW p, QShape(s, p)'
  PROVE  InQueue' = s
  <1>1. /\ s \in Seq(BUCKETs) /\ Apart(s)
        /\ \A i \in 0..Len(s) : next'[Around(s, i)] = Around(s, i + 1) /\ prev'[Around(s, i + 1)] = Around(s, i)
    BY DEF QShape, Ring, Apart, Around
  <1>2. Walk(next', next'[qctrl], qctrl) = s
    BY <1>1, RingWalk
  <1> QED  BY <1>2 DEF InQueue, Walk, Linked, ElemLists

----------------------------------------------------------------------------
(* One lemma for each operation: the shape stays, and the abstract queue   *)
(* takes the step of the same name.                                        *)
LEMMA OpNew ==
  ASSUME QInv, Q_newElem
  PROVE  QInv' /\ \E e \in BUCKETs : Abstract!New(e)
  <1>1. PICK s, p : QShape(s, p)
    BY DEF QInv
  <1>2. QTyped
    BY DEF QInv
  <1>3. /\ QTyped' /\ \E q : QShape(s, q)'
        /\ \E e \in BUCKETs : e \notin users \cup Members(s) /\ users' = users \cup {e}
    BY <1>1, <1>2, StepNewPooled, StepNewChunk
  <1>4. PICK q : QShape(s, q)'
    BY <1>3
  <1>5. InQueue = s /\ InQueue' = s
    BY <1>1, <1>4, InQueueIs, InQueueIsNext
  <1>6. QInv'
    BY <1>3, <1>4 DEF QInv
  <1> QED  BY <1>3, <1>5, <1>6 DEF Abstract!New, Abstract!Queued, Members

LEMMA OpFree ==
  ASSUME QInv, NEW e \in BUCKETs, Q_freeElem(e)
  PROVE  QInv' /\ Abstract!Free(e)
  <1>1. PICK s, p : QShape(s, p)
    BY DEF QInv
  <1>2. QTyped
    BY DEF QInv
  <1>3. QTyped' /\ QShape(s, <<e>> \o p)' /\ e \in users /\ users' = users \ {e}
    BY <1>1, <1>2, StepFree
  <1>4. PICK q : q = <<e>> \o p
    OBVIOUS
  <1>5. QShape(s, q)'
    BY <1>3, <1>4
  <1>6. InQueue = s /\ InQueue' = s
    BY <1>1, <1>5, InQueueIs, InQueueIsNext
  <1>7. QInv'
    BY <1>3, <1>5 DEF QInv
  <1> QED  BY <1>3, <1>6, <1>7 DEF Abstract!Free

LEMMA OpEnqueue ==
  ASSUME QInv, NEW e \in BUCKETs, enQ(e)
  PROVE  QInv' /\ Abstract!Enqueue(e)
  <1>1. PICK s, p : QShape(s, p)
    BY DEF QInv
  <1>2. QTyped
    BY DEF QInv
  <1>3. QTyped' /\ QShape(Append(s, e), p)' /\ e \in users /\ users' = users \ {e}
    BY <1>1, <1>2, StepEnqueue
  <1>4. PICK a : a = Append(s, e)
    OBVIOUS
  <1>5. QShape(a, p)'
    BY <1>3, <1>4
  <1>6. InQueue = s /\ InQueue' = a
    BY <1>1, <1>5, InQueueIs, InQueueIsNext
  <1>7. QInv'
    BY <1>3, <1>5 DEF QInv
  <1> QED  BY <1>3, <1>4, <1>6, <1>7 DEF Abstract!Enqueue

LEMMA OpDelete ==
  ASSUME QInv, NEW k \in 1..Len(InQueue), Q_delElem(InQueue[k])
  PROVE  QInv' /\ Abstract!RemoveAt(k)
  <1>1. PICK s, p : QShape(s, p)
    BY DEF QInv
  <1>2. QTyped /\ InQueue = s
    BY <1>1, InQueueIs DEF QInv
  <1>3. QTyped' /\ QShape(Drop(s, k), p)' /\ users' = users \cup {s[k]}
    BY <1>1, <1>2, StepDelete
  <1>4. PICK d : d = Drop(s, k)
    OBVIOUS
  <1>5. QShape(d, p)'
    BY <1>3, <1>4
  <1>6. InQueue' = d
    BY <1>5, InQueueIsNext
  <1>7. QInv'
    BY <1>3, <1>5 DEF QInv
  <1> QED  BY <1>2, <1>3, <1>4, <1>6, <1>7 DEF Abstract!RemoveAt, Abstract!Without, Drop

\* The queue the code walks through is a sequence of elements.
LEMMA WalkTyped ==
  ASSUME QInv
  PROVE  /\ InQueue \in Seq(BUCKETs) /\ Len(InQueue) \in Nat
         /\ \A i \in 1..Len(InQueue) : InQueue[i] \in BUCKETs
         /\ next[qctrl] = Around(InQueue, 1)
  <1>1. PICK s, p : QShape(s, p)
    BY DEF QInv
  <1>2. s \in Seq(BUCKETs) /\ Apart(s) /\ InQueue = s
    BY <1>1, InQueueIs DEF QShape
  <1>3. next[qctrl] = Around(s, 1)
    BY <1>1, RingWalk DEF QShape, Ring
  <1> QED  BY <1>2, <1>3, ElementOfSeq

LEMMA OpDequeue ==
  ASSUME QInv, deQ
  PROVE  QInv' /\ Abstract!Dequeue
  <1>1. PICK s : s = InQueue
    OBVIOUS
  <1>2. s \in Seq(BUCKETs) /\ Len(s) \in Nat /\ next[qctrl] = Around(s, 1) /\ next[qctrl] # qctrl
    BY <1>1, WalkTyped DEF deQ
  <1>3. 1 \in 1..Len(s) /\ next[qctrl] = s[1]
    BY <1>2 DEF Around
  <1>4. QInv' /\ Abstract!RemoveAt(1)
    BY <1>1, <1>3, OpDelete DEF deQ
  <1>5. users' = users \cup {s[1]} /\ InQueue' = [j \in 1..(Len(s) - 1) |-> IF j < 1 THEN s[j] ELSE s[j + 1]]
    BY <1>1, <1>4 DEF Abstract!RemoveAt, Abstract!Without
  <1>6. [j \in 1..(Len(s) - 1) |-> IF j < 1 THEN s[j] ELSE s[j + 1]] = Tail(s)
    <2> DEFINE t == [j \in 1..(Len(s) - 1) |-> IF j < 1 THEN s[j] ELSE s[j + 1]]
    <2>1. Len(s) - 1 \in Nat /\ t \in [1..(Len(s) - 1) -> BUCKETs]
          /\ \A j \in 1..(Len(s) - 1) : t[j] = s[j + 1]
      BY <1>2, <1>3, ElementOfSeq
    <2>2. t \in Seq(BUCKETs)
      BY <2>1, SeqDef
    <2>3. Len(t) = Len(s) - 1
      <3>1. Len(t) \in Nat /\ DOMAIN t = 1..Len(t) /\ DOMAIN t = 1..(Len(s) - 1)
        BY <2>2, LenProperties
      <3> QED  BY <2>1, <3>1
    <2>4. Tail(s) \in Seq(BUCKETs) /\ Len(Tail(s)) = Len(s) - 1
          /\ \A j \in 1..(Len(s) - 1) : Tail(s)[j] = s[j + 1]
      BY <1>2, <1>3
    <2> HIDE DEF t
    <2>5. t = Tail(s)
      BY <2>1, <2>2, <2>3, <2>4, SeqEqual
    <2> QED  BY <2>5 DEF t
  <1>7. s # <<>> /\ Head(s) = s[1]
    BY <1>2, <1>3
  <1> QED  BY <1>1, <1>4, <1>5, <1>6, <1>7 DEF Abstract!Dequeue

LEMMA OpFind ==
  ASSUME QInv, NEW k, Q_find(k)
  PROVE  QInv' /\ Abstract!Find(k)
  <1>1. PICK s : s = InQueue
    OBVIOUS
  <1>2. s \in Seq(BUCKETs) /\ Len(s) \in Nat
    BY <1>1, WalkTyped
  <1>3. Hits(k) # {} /\ Hits(k) = {n \in 1..Len(s) : elemkey[s[n]] = k}
    BY <1>1 DEF Q_find, Q_probe, Hits
  <1>4. Hits(k) \in SUBSET Nat
    BY <1>2, <1>3
  <1>5. \E n \in Hits(k) : \A m \in Hits(k) : n <= m
    BY <1>3, <1>4, LeastNumber
  <1>6. PICK n : n = CHOOSE c \in Hits(k) : \A m \in Hits(k) : c <= m
    OBVIOUS
  <1>7. n \in Hits(k) /\ \A m \in Hits(k) : n <= m
    BY <1>5, <1>6
  <1>8. n \in 1..Len(s) /\ elemkey[s[n]] = k /\ Q_probe(k) = s[n]
    BY <1>1, <1>3, <1>6, <1>7 DEF Q_probe
  <1>9. \A j \in 1..(n - 1) : elemkey[s[j]] # k
    <2>1. \A j \in 1..(n - 1) : j \in 1..Len(s) /\ ~(n <= j)
      BY <1>2, <1>8
    <2> QED  BY <1>3, <1>7, <2>1
  <1>10. QInv' /\ Abstract!RemoveAt(n)
    BY <1>1, <1>8, OpDelete DEF Q_find
  <1> QED  BY <1>1, <1>8, <1>9, <1>10 DEF Abstract!Find

LEMMA OpRemove ==
  ASSUME QInv, NEW k, Q_removeElem(k)
  PROVE  QInv' /\ \E e \in BUCKETs : elemkey[e] = k /\ Abstract!Remove(e)
  <1>1. PICK n \in 1..Len(InQueue) : elemkey[InQueue[n]] = k /\ Q_delElem(InQueue[n])
    BY DEF Q_removeElem
  <1>2. InQueue[n] \in BUCKETs
    BY WalkTyped
  <1>3. QInv' /\ Abstract!RemoveAt(n)
    BY <1>1, OpDelete
  <1> QED  BY <1>1, <1>2, <1>3 DEF Abstract!Remove

\* What every step keeps, and what it is for the users of the queue.
LEMMA EveryStep ==
  ASSUME QInv, [QNext]_tqueue
  PROVE  QInv' /\ [Matches]_tqueue /\ [Abstract!ANext]_(Abstract!aqueue)
  <1>1. Matches
    BY OpNew, OpFree, OpEnqueue, OpDequeue, OpFind, OpRemove DEF Matches
  <1>2. CASE Q_newElem
    BY <1>1, <1>2, OpNew DEF Matches, Abstract!ANext
  <1>3. ASSUME NEW k \in SearchKeys, Q_find(k)
        PROVE  QInv' /\ Abstract!ANext
    <2>1. PICK e \in BUCKETs : k = elemkey[e]
      BY DEF SearchKeys
    <2>2. QInv' /\ Abstract!Find(elemkey[e])
      BY <1>3, <2>1, OpFind
    <2> QED  BY <2>1, <2>2 DEF Abstract!ANext
  <1>4. ASSUME NEW k \in SearchKeys, Q_removeElem(k)
        PROVE  QInv' /\ Abstract!ANext
    BY <1>4, OpRemove DEF Abstract!ANext
  <1>5. ASSUME NEW e \in BUCKETs, Q_freeElem(e) \/ enQ(e)
        PROVE  QInv' /\ Abstract!ANext
    BY <1>5, OpFree, OpEnqueue DEF Abstract!ANext
  <1>6. CASE deQ
    <2>1. QInv' /\ Abstract!Dequeue
      BY <1>6, OpDequeue
    <2> QED  BY <1>1, <2>1 DEF Abstract!ANext
  <1>7. CASE UNCHANGED tqueue
    <2>1. PICK s, p : QShape(s, p)
      BY DEF QInv
    <2>2. /\ next' = next /\ prev' = prev /\ count' = count /\ allocate' = allocate
          /\ chunks' = chunks /\ users' = users
      BY <1>7 DEF tqueue
    <2>3. QShape(s, p)' /\ QTyped'
      <3>1. /\ s \in Seq(BUCKETs) /\ p \in Seq(BUCKETs) /\ Apart(s) /\ Apart(p) /\ Ring(s) /\ count = Len(s)
            /\ Linked(prev, allocate, NULL_ELEM, p)
            /\ Members(s) \cup Members(p) \cup users = 1..(chunks * chunk_group)
            /\ Members(s) \cap Members(p) = {} /\ Members(s) \cap users = {} /\ Members(p) \cap users = {}
        BY <2>1 DEF QShape
      <3>2. Ring(s)'
        BY <2>2, <3>1 DEF Ring, Around
      <3>3. Linked(prev', allocate', NULL_ELEM, p)
        BY <2>2, <3>1
      <3> QED  BY <2>2, <3>1, <3>2, <3>3 DEF QShape, QInv, QTyped
    <2>4. InQueue' = InQueue
      BY <2>1, <2>3, InQueueIs, InQueueIsNext
    <2>5. QInv'
      BY <2>3 DEF QInv
    <2> QED  BY <1>1, <2>2, <2>4, <2>5 DEF Abstract!aqueue
  <1> QED  BY <1>1, <1>2, <1>3, <1>4, <1>5, <1>6, <1>7 DEF QNext

LEMMA QueueInvariant == QSpec => []QInv
  <1>1. QInit => QInv
    BY QueueInit DEF QInv
  <1>2. QInv /\ [QNext]_tqueue => QInv'
    BY EveryStep
  <1> QED  BY <1>1, <1>2, PTL DEF QSpec

LEMMA InvSound ==
  ASSUME QInv
  PROVE  QueueSound
  <1>1. PICK s, p : QShape(s, p)
    BY DEF QInv
  <1>2. /\ s \in Seq(BUCKETs) /\ p \in Seq(BUCKETs) /\ Apart(s) /\ Apart(p) /\ Ring(s) /\ count = Len(s)
        /\ Linked(prev, allocate, NULL_ELEM, p)
    BY <1>1 DEF QShape
  <1>3. /\ Walk(prev, prev[qctrl], qctrl) = Backwards(s) /\ InQueue = s
        /\ next[qctrl] = Around(s, 1) /\ prev[qctrl] = Around(s, Len(s))
    BY <1>2, RingWalk DEF Ring, InQueue
  <1>4. InPool = p
    BY <1>2, WalkIs, BucketsAre DEF InPool
  <1>5. /\ Len(s) \in Nat /\ qctrl # NULL_ELEM
        /\ \A i \in 1..Len(s) : Around(s, i) = s[i] /\ s[i] # qctrl /\ s[i] # NULL_ELEM
    BY <1>2, RingFacts, BucketsAre
  <1>6. ChainsAgree
    <2>1. Walk(prev, prev[qctrl], qctrl) = [n \in 1..count |-> InQueue[count + 1 - n]]
      BY <1>2, <1>3 DEF Backwards
    <2>2. CASE Len(s) = 0
      <3>1. Around(s, 1) = qctrl /\ Around(s, Len(s)) = qctrl
        BY <2>2 DEF Around
      <3> QED  BY <1>2, <1>3, <2>1, <2>2, <3>1 DEF ChainsAgree, Q_isEmpty, Q_first, Q_last
    <2>3. CASE Len(s) # 0
      <3>1. 1 \in 1..Len(s) /\ Len(s) \in 1..Len(s)
        BY <1>5, <2>3
      <3> QED  BY <1>2, <1>3, <1>5, <2>1, <2>3, <3>1 DEF ChainsAgree, Q_isEmpty, Q_first, Q_last
    <2> QED  BY <2>2, <2>3
  <1>7. EachInOnePlace
    <2>1. {InQueue[n] : n \in 1..Len(InQueue)} = Members(s) /\ Pool = Members(p)
      BY <1>3, <1>4 DEF Members, Pool
    <2>2. /\ Members(s) \cup Members(p) \cup users = 1..(chunks * chunk_group)
          /\ Members(s) \cap Members(p) = {} /\ Members(s) \cap users = {} /\ Members(p) \cap users = {}
      BY <1>1 DEF QShape
    <2> QED  BY <2>1, <2>2 DEF EachInOnePlace
  <1> QED  BY <1>6, <1>7 DEF QueueSound

\* The links of the queue agree in both directions, and no element is lost or in two places:
\* whatever is enqueued, dequeued, searched for, removed and given back, in whatever order.
THEOREM QueueIsSound == QSpec => []QueueSound
  <1>1. QInv => QueueSound
    BY InvSound
  <1> QED  BY <1>1, QueueInvariant, PTL

\* The links implement the sequence that the users of the queue rely on, and each operation of
\* the code is the operation of the abstract queue that it stands for.
THEOREM QueueRefines == QSpec => QRefines
  <1>1. QInit => Abstract!AInit
    <2> SUFFICES ASSUME QInit PROVE Abstract!AInit
      OBVIOUS
    <2>1. PICK p : QShape(<< >>, p)
      BY QueueInit
    <2> QED  BY <2>1, InQueueIs DEF Abstract!AInit, QInit
  <1>2. QInv /\ [QNext]_tqueue => [Abstract!ANext]_(Abstract!aqueue) /\ [Matches]_tqueue
    BY EveryStep
  <1>3. QSpec => Abstract!ASpec
    BY <1>1, <1>2, QueueInvariant, PTL DEF QSpec, Abstract!ASpec
  <1>4. QSpec => [][Matches]_tqueue
    BY <1>2, QueueInvariant, PTL DEF QSpec
  <1> QED  BY <1>3, <1>4 DEF QRefines
=============================================================================
