CONSTANTS
  ORDER = 4
  Threads = {1, 2, 3}
  Absent = Absent
  Workloads <- AllWorkloads
SPECIFICATION Spec
INVARIANTS
  TypeOK
  
  RoutedRight
  ChainInOrder
  NothingLeftBehind

  
  
