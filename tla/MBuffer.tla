------------------------------ MODULE MBuffer ------------------------------
(***************************************************************************)
(* utils/buffer/mbuffer.c: the message buffers of one MPI node, a system   *)
(* buffer made by mb_init and a buffer the program may attach and detach   *)
(* (MPI_Buffer_attach).  Each is cut into blocks that start with a header  *)
(* and form a doubly linked list in the order of their addresses; the node *)
(* and the movin thread allocate and free under a mutex.                   *)
(*                                                                         *)
(* Sizes and addresses are in units of Alignment (32 bytes), which is also *)
(* BUF_HEADER_SIZE.  The header of a block that was merged into another    *)
(* one is left out of the state: a use of it would be an error.            *)
(***************************************************************************)
EXTENDS Integers, FiniteSets

CONSTANTS
  SysSize,       \* the size mb_init asks for
  UsrSizes,      \* the sizes of the buffers the program attaches
  Requests       \* the sizes that are asked for

ASSUME MBAssumption == SysSize \in Nat /\ UsrSizes \subseteq Nat \ {0} /\ Requests \subseteq Nat

BUF_HEADER_SIZE == 1
MinFragment == BUF_HEADER_SIZE + 2
NIL == -1
Areas == {"sys", "usr"}

VARIABLES
  areasize,     \* of each area: its size, 0 when there is none
  hdr,      \* hdr[a][x]: the BufferHandle at address x of area a, for its blocks
  items     \* history: the items in use: [area, at, len]

mbuffer == <<areasize, hdr, items>>

Whole(n) == [x \in {0} |-> [pre |-> NIL, next |-> NIL, free |-> TRUE, size |-> n]]
NoBlocks == [x \in {} |-> {}]

MBInit ==
  /\ areasize = [a \in Areas |-> 0] /\ hdr = [a \in Areas |-> NoBlocks]
  /\ items = {}

----------------------------------------------------------------------------
\* mb_init tries smaller and smaller buffers until malloc gives one.
mb_init(given) ==
  /\ areasize["sys"] = 0 /\ given \in 1..SysSize
  /\ areasize' = [areasize EXCEPT !["sys"] = given]
  /\ hdr' = [hdr EXCEPT !["sys"] = Whole(given)]
  /\ UNCHANGED items

Blocks(a) == DOMAIN hdr[a]
Without(h, dead) == [x \in DOMAIN h \ dead |-> h[x]]
With(h, x, b) == [y \in DOMAIN h \cup {x} |-> IF y = x THEN b ELSE h[y]]

Adjusted(n) == n + BUF_HEADER_SIZE

Fits(a, x, n) == hdr[a][x].free /\ hdr[a][x].size >= Adjusted(n)

\* First fit, in the system buffer and then in the user's.
Chosen(n) ==
  LET fit(a) == {x \in Blocks(a) : Fits(a, x, n)}
      first(a) == CHOOSE x \in fit(a) : \A y \in fit(a) : x <= y
  IN IF fit("sys") # {} THEN <<"sys", first("sys")>>
     ELSE IF fit("usr") # {} THEN <<"usr", first("usr")>> ELSE <<>>

\* The rest of the block becomes a free block of its own.
Split(h, x, n) ==
  LET y == x + Adjusted(n)
      z == h[x].next
      rest == [pre |-> x, next |-> z, free |-> TRUE, size |-> h[x].size - Adjusted(n)]
      cut == [With(h, y, rest) EXCEPT ![x] = [@ EXCEPT !.free = FALSE, !.next = y, !.size = Adjusted(n)]]
  IN IF z = NIL THEN cut ELSE [cut EXCEPT ![z].pre = y]

mb_alloc(n) ==
  /\ areasize["sys"] > 0 /\ Chosen(n) # <<>>
  /\ LET a == Chosen(n)[1]
         x == Chosen(n)[2]
     IN /\ hdr' = [hdr EXCEPT ![a] = IF @[x].size >= Adjusted(n) + MinFragment THEN Split(@, x, n)
                                     ELSE [@ EXCEPT ![x].free = FALSE]]
        /\ items' = items \cup {[area |-> a, at |-> x, len |-> n]}
  /\ UNCHANGED areasize

\* Faulty: a freed block is not merged.
MergeNot(h, x) == [h EXCEPT ![x].free = TRUE]

\* A freed block is merged with the free blocks before and after it.
Merge(h, x) ==
  LET y == h[x].pre
      z == h[x].next
      before == y # NIL /\ h[y].free
      after == z # NIL /\ h[z].free
      Join(v, dead, len, w) ==   \* block v swallows the dead ones, and w follows it
        LET g == [Without(h, dead) EXCEPT ![v] = [@ EXCEPT !.free = TRUE, !.size = len, !.next = w]]
        IN IF w = NIL THEN g ELSE [g EXCEPT ![w].pre = v]
  IN CASE after /\ before -> Join(y, {x, z}, h[y].size + h[x].size + h[z].size, h[z].next)
       [] after /\ ~before -> Join(x, {z}, h[x].size + h[z].size, h[z].next)
       [] ~after /\ before -> Join(y, {x}, h[y].size + h[x].size, z)
       [] ~after /\ ~before -> [h EXCEPT ![x].free = TRUE]

mb_free(item) ==
  /\ hdr' = [hdr EXCEPT ![item.area] = Merge(@, item.at)]
  /\ items' = items \ {item}
  /\ UNCHANGED areasize

mb_attach_buffer(n) ==
  /\ areasize["usr"] = 0
  /\ areasize' = [areasize EXCEPT !["usr"] = n]
  /\ hdr' = [hdr EXCEPT !["usr"] = Whole(n)]
  /\ UNCHANGED items

Busy == ~hdr["usr"][0].free \/ hdr["usr"][0].next # NIL

\* A buffer that is in use is not detached.
mb_detach_buffer ==
  /\ areasize["usr"] > 0 /\ ~Busy
  /\ areasize' = [areasize EXCEPT !["usr"] = 0] /\ hdr' = [hdr EXCEPT !["usr"] = NoBlocks]
  /\ UNCHANGED items

\* The end of the node: what is left in the system buffer goes with it (Runtime looks
\* at who may still want it).
mb_end ==
  /\ areasize["sys"] > 0
  /\ areasize' = [areasize EXCEPT !["sys"] = 0] /\ hdr' = [hdr EXCEPT !["sys"] = NoBlocks]
  /\ items' = {i \in items : i.area # "sys"}

MBNext ==
  \/ \E n \in 1..SysSize : mb_init(n)
  \/ \E n \in Requests : mb_alloc(n)
  \/ \E item \in items : mb_free(item)
  \/ \E n \in UsrSizes : mb_attach_buffer(n)
  \/ mb_detach_buffer \/ mb_end

MBSpec == MBInit /\ [][MBNext]_mbuffer

----------------------------------------------------------------------------
\* The blocks of a buffer tile it: each begins where the one before it ends, the last ends
\* with the buffer, and the pointers back agree with the pointers forward.
BlocksTile ==
  \A a \in Areas : \A x \in Blocks(a) :
    LET h == hdr[a][x] IN
    /\ h.size > 0
    /\ IF h.next = NIL THEN x + h.size = areasize[a]
       ELSE h.next = x + h.size /\ h.next \in Blocks(a) /\ hdr[a][h.next].pre = x
    /\ h.pre # NIL => h.pre \in Blocks(a) /\ hdr[a][h.pre].next = x

\* Memory comes back: two neighbouring blocks are never both free, so a buffer without
\* items is one free block and can be detached or used whole.
NothingFragmented ==
  \A a \in Areas : \A x \in Blocks(a) :
    LET h == hdr[a][x] IN
    /\ h.free /\ h.next # NIL => ~hdr[a][h.next].free
    /\ ~h.free <=> \E item \in items : item.area = a /\ item.at = x

\* Items do not overlap each other, the headers or the end of their buffer, and the
\* program does not get a buffer back that holds one.
ItemsDisjoint ==
  LET Cells(i) == (i.at + BUF_HEADER_SIZE)..(i.at + BUF_HEADER_SIZE + i.len - 1) IN
  \A i \in items :
    /\ i.at + BUF_HEADER_SIZE + i.len <= areasize[i.area]
    /\ \A x \in Blocks(i.area) : x \notin Cells(i)
    /\ \A j \in items : i # j /\ i.area = j.area => Cells(i) \cap Cells(j) = {}

\* The blocks of the buffer tile it, no two neighbours are free, and what was handed out
\* does not overlap.
AllocatorSound == BlocksTile /\ NothingFragmented /\ ItemsDisjoint
=============================================================================
