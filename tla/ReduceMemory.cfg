SPECIFICATION Safe
CONSTANTS
  root = root
  n1 = n1
  n2 = n2
  Root = root
  Nodes <- ThreeNodes
  Rounds = 1
  MaxHandles = 4
  MaxFails = 0
  MaxSpurious = 0
INVARIANTS ReduceMemorySound
