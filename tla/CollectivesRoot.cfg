SPECIFICATION MachinesSafe
CONSTANTS
  Machines = {1, 2, 3}
  Master = 1
  Messages = {1, 2, 3}
  Message <- ThreeMessages
  Program <- ThreePrograms
  Layouts <- OneMachine
  ProgramsOf <- OneReduction
  global_rank <- Swapped
  BCAST_TREE_NODES = 4
  SockRoom = 1
CHECK_DEADLOCK FALSE
INVARIANTS CollectiveData
