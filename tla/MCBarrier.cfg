SPECIFICATION BothSpec
CONSTANTS
  t1 = t1
  t2 = t2
  t3 = t3
  t4 = t4
  NoThread = NoThread
  Threads <- FourThreads
  Rounds = 3
  MaxSpurious = 1
INVARIANTS Inv BarrierSafe
PROPERTIES EveryCallReturns ImplementsBarrier
