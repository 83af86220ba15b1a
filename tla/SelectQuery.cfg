SPECIFICATION Spec
CONSTANTS
  Null = Null
  Dialects <- MCDialects
  FilterArgs <- MCFilterArgs
  CteArgs <- MCCteArgs
  Orders <- MCOrders
  Universe <- MCUniverse
  Children <- MCChildren
  Ids <- MCIds
  Tables <- MCTables
  Arrivals <- MCArrivals
  Sizes = {1, 2}
  MaxCalls = 2
  WalkCalls = 1
  MaxOther = 1
INVARIANTS
  FormsMeanCalls
  WalksExact
CHECK_DEADLOCK FALSE
