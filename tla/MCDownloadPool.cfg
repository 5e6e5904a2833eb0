SPECIFICATION Spec
CHECK_DEADLOCK FALSE
CONSTANTS
  t1 = t1
  t2 = t2
  t3 = t3
  w1 = w1
  w2 = w2
  NoTask = NoTask
  Tasks <- MCTasks
  Workers <- MCWorkers
  MaxBroken = 1
  MaxSubmits = 4
INVARIANTS
  OneAnswer
PROPERTIES
  CancelSettles
