SPECIFICATION CancelSpec
CONSTANTS
  a = a
  b = b
  ma = ma
  mb = mb
  Nobody = Nobody
  Nodes <- TwoNodes
  Machines <- TwoMachines
  Mac <- Where
  SendCalls <- LongSends
  RecvCalls <- LongRecvs
  RequestCalls = {"start", "wait", "cancel"}
  MaxSends = 2
  MaxRecvs = 1
  MaxStarts = 1
  Capacity = 1
  MaxSpurious = 0
CHECK_DEADLOCK FALSE
INVARIANTS CancelKeepsReceive
