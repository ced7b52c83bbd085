\* Main, a producer and two workers; two tasks that may be resumed and reset.
SPECIFICATION Spec
CONSTANTS
  main = main
  p1 = p1
  w1 = w1
  w2 = w2
  f1 = f1
  f2 = f2
  root = root
  NULL = NULL
  Threads <- ProducerAndTwoWorkers
  Fibers <- TwoTasks
  Producers <- OneProducer
  Main = main
  Root = root
  UseCaller = FALSE
  CreateFails = FALSE
  ClientOps <- ResumeAndReset
SYMMETRY WorkersAndTasks
INVARIANTS
  TypeOK
  CurrentIsExecuting
  OneThreadPerFiber
  NoLostWakeup
  StopWakesAll
  StopDrains
  FinishedNeverResumed
  IInv
PROPERTIES
  ImplementsTaskPool
