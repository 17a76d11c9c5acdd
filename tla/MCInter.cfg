SPECIFICATION Spec
CONSTANTS
  a = a
  b = b
  ma = ma
  mb = mb
  Nobody = Nobody
  Nodes <- TwoNodes
  Machines <- TwoMachines
  Mac <- Where
  SendCalls <- ProtocolSends
  RecvCalls <- ProtocolRecvs
  RequestCalls = {"start", "wait", "cancel"}
  MaxSends = 2
  MaxRecvs = 2
  MaxStarts = 2
  Capacity = 1
  MaxSpurious = 1
CHECK_DEADLOCK FALSE
INVARIANTS ExchangesSound NamedHandlesLive NoProtocolError NonOvertaking DataIntact
PROPERTIES CallsReturn ReleasedAreRetired
