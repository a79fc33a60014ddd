SPECIFICATION Spec
CONSTANTS
  w1 = w1
  w2 = w2
  r1 = r1
  r2 = r2
  b1 = b1
  Workers <- MCWorkers
  Tasks <- MCTasks
  BackgroundTasks <- MCBackground
  NoTask = NoTask
  kMaxInFlightTasks = 2
CHECK_DEADLOCK FALSE
INVARIANTS
    ServerSafety
PROPERTIES
    ImplementsTaskPool
    AcceptedTasksRun
    
