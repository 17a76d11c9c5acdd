------------------------------ MODULE MCInter ------------------------------
(* Instances of Inter for TLC: two machines with one MPI node each. *)
EXTENDS Inter

CONSTANTS a, b, ma, mb

TwoNodes == {a, b}
TwoMachines == {ma, mb}
Where == [n \in {a, b} |-> IF n = a THEN ma ELSE mb]

Sends(from, to, modes, types, long) ==
  [from : {from}, dest : {to}, mode : modes, type : types, long : long]

\* Node a sends short and long messages, with and without a system buffer, ready
\* and persistent ones; node b receives.
ProtocolSends ==
  Sends(a, b, {"BUFFERED"}, {"IMMEDIATE"}, {TRUE})
  \cup Sends(a, b, {"STANDARD"}, {"SEND"}, {FALSE})
  \cup Sends(a, b, {"READY"}, {"SEND"}, BOOLEAN)
  \cup Sends(a, b, {"SYNC"}, {"PERSISTENT"}, {FALSE})
ProtocolRecvs == [at : {b}, type : {"IMMEDIATE"}]

\* A long message and a receive that may be cancelled.
LongSends == Sends(a, b, {"SYNC"}, {"IMMEDIATE"}, {TRUE})
LongRecvs == [at : {b}, type : {"IMMEDIATE"}]
=============================================================================
