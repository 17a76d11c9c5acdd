SPECIFICATION Safe
CONSTANTS
  a = a
  b = b
  NoNode = NoNode
  AnySource = AnySource
  AnyTag = AnyTag
  Nodes <- Two
  SendCalls <- RequestSends
  RecvCalls <- RequestRecvs
  RequestCalls = {"start", "wait", "test", "cancel", "free"}
  MaxSends = 2
  MaxRecvs = 2
  MaxStarts = 2
  MaxSpurious = 1
CHECK_DEADLOCK FALSE
INVARIANTS NoMissedMatch ExactlyOnce RequestsSound
