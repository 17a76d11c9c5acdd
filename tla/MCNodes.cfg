SPECIFICATION NodesSpec
CONSTANTS
  r1 = r1
  r2 = r2
  Root = root
  Readers <- TwoReaders
  Rounds = 4
  ReduceRounds = 3
  MaxHandles = 7
  MaxFails = 1
  MaxSpurious = 1
INVARIANTS Agreement MemorySound ResultComplete ReturnsAgree PairMemorySound
PROPERTIES BcastsReturn ReductionsReturn
