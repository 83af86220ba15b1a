SPECIFICATION MCSpec
CONSTANTS
  a1 = a1
  a2 = a2
  p1 = p1
  p2 = p2
  t1 = t1
  t2 = t2
  c1 = c1
  c2 = c2
  Authors <- TwoAuthors
  Posts <- TwoPosts
  Tags <- TwoTags
  Clients <- TwoClients
  Null = Null
  Absent = Absent
  Stores <- SomeStores
  Calls <- SomeCalls
  ChunkRows = 1
  MaxFailures = 1
  Includes <- SomeIncludes
  KeyOrder <- SomeKeys
  Wanted <- SomeWanted
  ChunkSizes <- SomeSizes
  FastLimit = 1
  NoLimit = NoLimit
  MaxChanges = 2
CHECK_DEADLOCK FALSE
INVARIANTS ErrorsLeaveNothing IncludesTrue
PROPERTIES CallsAreOneStep AnswersHoldAtCommit
