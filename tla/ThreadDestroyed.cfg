\* A Thread destroyed right after its constructor returned.
SPECIFICATION Spec
CONSTANTS
  h1 = h1
  h2 = h2
  Handles <- OneHandle
  CreateFails = FALSE
INVARIANTS
  NoUseAfterDestroy
CHECK_DEADLOCK FALSE
