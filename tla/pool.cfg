SPECIFICATION FairSpec
CONSTANTS
  Stop = Stop
  Workers = {w1, w2}
  Tasks <- MCTasks
  PerWorker = 1
CHECK_DEADLOCK FALSE
INVARIANTS TypeOK EachTaskOnce
PROPERTIES CoordinatorEnds ThreadsEnd ImplementsReading
