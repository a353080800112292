CONSTANTS
  ORDER = 4
  Threads = {1, 2, 3}
  Absent = Absent
  Workloads <- SplitRace
SPECIFICATION Spec
INVARIANT
  RoutedRight
