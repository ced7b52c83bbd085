\* Two threads pass two fibers back and forth with call() and back().
SPECIFICATION Spec
CONSTANTS
  t1 = t1
  t2 = t2
  f1 = f1
  f2 = f2
  NULL = NULL
  Threads <- TwoThreads
  Fibers <- TwoFibers
INVARIANTS
  CurrentIsExecuting
  OneThreadPerFiber
  MainContextKept
  SuspendedIsResumable
  UseInv
CHECK_DEADLOCK FALSE
