SPECIFICATION MachinesSpec
CONSTANTS
  Machines = {1, 2, 3}
  Master = 1
  Messages = {1, 2, 3}
  Message <- ThreeMessages
  Program <- ThreePrograms
  Layouts <- SmallLayouts
  ProgramsOf <- SmallPrograms
  global_rank <- InOrder
  BCAST_TREE_NODES = 4
  SockRoom = 1
CHECK_DEADLOCK FALSE
INVARIANTS CollectivesCorrect NetSerialised NothingUsedAfterFree PumpSound
PROPERTIES RuntimeComesDown CollectivesReturn
