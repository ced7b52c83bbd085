\* Liveness: tasks are scheduled once each.
SPECIFICATION FairSpec
CONSTANTS
  main = main
  p1 = p1
  w1 = w1
  w2 = w2
  f1 = f1
  f2 = f2
  root = root
  NULL = NULL
  Threads <- TwoWorkers
  Fibers <- TwoTasks
  Producers <- NoProducer
  Main = main
  Root = root
  UseCaller = FALSE
  CreateFails = FALSE
  ClientOps <- NoOps
PROPERTIES
  ScheduledRuns
  StopCompletes
