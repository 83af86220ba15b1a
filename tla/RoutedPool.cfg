SPECIFICATION FairSpec
CONSTANTS
  u1 = u1
  u2 = u2
  u3 = u3
  k1 = k1
  Task = Task
  Readers <- ThreeReaders
  Checkers <- TwoCheckers
  Wrap = 4
  Usages <- Routers
INVARIANTS RoutedByFlags Balanced
PROPERTIES HealthFollows
