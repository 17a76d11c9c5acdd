SPECIFICATION ServicesSpec
CONSTANTS
  Bad = Bad
  GroupFiles <- Files
  chunk_group = 2
  MaxChunks = 2
  elemkey <- Parity
  SysSize = 11
  UsrSizes = {6, 8}
  Requests = {1, 2, 3}
  Writers = {w1, w2}
  Readers = {r1, r2}
  buf_size = 3
  MaxItems = 5
  MaxFifoWakeups = 2
  SemThreads = {s1, s2, s3}
  SemValue = 1
  MaxV = 4
  MaxSemWakeups = 2
  LocalNodes = {1, 2}
  NGlobal = 3
  Me = 1
  GroupHandles = {h1, h2, h3}
  RankLists <- Lists
  RankRanges <- Ranges
  NReq = 3
  Persistent = {1}
  MaxCalls = 4
CHECK_DEADLOCK FALSE
INVARIANTS RanksSound QueueSound AllocatorSound FifoSound SemAccounts ContextSound ArraysSound
PROPERTIES QRefines
