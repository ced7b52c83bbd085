\* Two clients, two variables, up to three listeners of one, a document for both.
SPECIFICATION Spec
CONSTANTS
  system = system
  port = port
  bad = bad
  c1 = c1
  c2 = c2
  THROWS = THROWS
  NULL = NULL
  Parts <- AllParts
  Names <- ThreeNames
  ValidKeys <- GoodKeys
  Ids = {1, 2, 3}
  Callers <- TwoCallers
  Listeners = {1, 2, 3}
  Subscriptions <- SomeSubscriptions
  Creations <- SomeCreations
  Assignments <- SomeAssignments
  Nodes <- AllNodes
  Documents <- Docs
  MaxDepth = 4
CHECK_DEADLOCK FALSE
INVARIANTS
  TypeOK
  OneVariablePerName
  LoadIsolated
  ListenersInformed
  RoundTrip
PROPERTIES
  LoadCompletes
