\* The caller's thread takes part, tasks reschedule themselves before they yield, and
\* pthread_create may fail. The process may end in stop().
SPECIFICATION Spec
CONSTANTS
  main = main
  p1 = p1
  w1 = w1
  w2 = w2
  f1 = f1
  f2 = f2
  root = root
  NULL = NULL
  Threads <- ProducerAndOneWorker
  Fibers <- TwoTasks
  Producers <- OneProducer
  Main = main
  Root = root
  UseCaller = TRUE
  CreateFails = TRUE
  ClientOps <- AllOps
SYMMETRY WorkersAndTasks
INVARIANTS
  CurrentIsExecuting
  StopDrains
  FinishedNeverResumed
CHECK_DEADLOCK FALSE
