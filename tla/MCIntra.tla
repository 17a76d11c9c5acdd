------------------------------ MODULE MCIntra ------------------------------
(* Instances of Intra for TLC: which calls the programs of the nodes make. *)
EXTENDS Intra

CONSTANTS a, b

Two == {a, b}

Sends(from, dests, tags, modes, types, lens) ==
  [from : {from}, dest : dests, tag : tags, mode : modes, type : types, len : lens]
Recvs(at, srcs, tags, types) == [at : {at}, src : srcs, tag : tags, type : types]

\* Every mode a program can use without knowing what the receiver has done, blocking,
\* immediate and persistent, with tags that some receives ask for and others leave open.
ModeSends == Sends(a, {b}, {1}, {"STANDARD", "BUFFERED", "SYNC"}, {"SEND"}, {0, 1})
             \cup Sends(a, {b}, {2}, {"STANDARD", "BUFFERED", "SYNC"}, {"IMMEDIATE"}, {1})
             \cup Sends(a, {b}, {1}, {"SYNC"}, {"PERSISTENT"}, {1})
ModeRecvs == Recvs(b, {a}, {1}, {"RECV"}) \cup Recvs(b, {AnySource}, {AnyTag}, {"INIT"})

\* Requests that are tested, cancelled and freed, and ready sends, with two tags and both
\* wildcards.
RequestSends == Sends(a, {b}, {1}, {"READY"}, {"IMMEDIATE"}, {1})
                \cup Sends(a, {b}, {2}, {"BUFFERED"}, {"PERSISTENT"}, {1})
RequestRecvs == Recvs(b, {AnySource}, {1}, {"INIT"}) \cup Recvs(b, {a}, {AnyTag}, {"INIT"})
=============================================================================
