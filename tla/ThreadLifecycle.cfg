\* Two Thread objects, constructed, joined and destroyed in every order.
SPECIFICATION FairSpec
CONSTANTS
  h1 = h1
  h2 = h2
  Handles <- TwoHandles
  CreateFails = TRUE
INVARIANTS
  TypeOK
  ConstructedIsInitialised
  JoinedMeansDone
  NothingLeftJoinable
  ThreadInv
PROPERTIES
  DestroyedIsReclaimed
CHECK_DEADLOCK FALSE
