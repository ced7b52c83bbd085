\* stop() with user_caller never returns.
SPECIFICATION FairSpec
CONSTANTS
  main = main
  p1 = p1
  w1 = w1
  w2 = w2
  f1 = f1
  f2 = f2
  root = root
  NULL = NULL
  Threads <- OneWorker
  Fibers <- TwoTasks
  Producers <- NoProducer
  Main = main
  Root = root
  UseCaller = TRUE
  CreateFails = FALSE
  ClientOps <- NoOps
PROPERTIES
  StopCompletes
CHECK_DEADLOCK FALSE
