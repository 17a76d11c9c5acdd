SPECIFICATION Spec
CONSTANTS
  a = a
  b = b
  NoNode = NoNode
  AnySource = AnySource
  AnyTag = AnyTag
  Nodes <- Two
  SendCalls <- ModeSends
  RecvCalls <- ModeRecvs
  RequestCalls = {"wait", "start"}
  MaxSends = 2
  MaxRecvs = 2
  MaxStarts = 2
  MaxSpurious = 1
CHECK_DEADLOCK FALSE
INVARIANTS DataIntact HandlesSound InOrder
PROPERTIES CallsReturn
