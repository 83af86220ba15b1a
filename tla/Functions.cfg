SPECIFICATION Spec
CONSTANTS
  Pending = Pending
  Null = Null
  Error = Error
  NaN = NaN
  Default = Default
  Tokens = {v1, v2}
  v1 = v1
  v2 = v2
  NoName = NoName
  NotFinite = NotFinite
  Whole = Whole
  Big = Big
  Rounded = Rounded
  Positional <- MCPositional
  DepthCap = 2
  I64Max = 7
  Alphabet <- MCAlphabet
  FieldName <- MCFieldName
  ModelName <- MCModelName
  LowerFirst <- MCLowerFirst
INVARIANTS
  RelationsExact
  HierarchyExact
  TextReadRight
  ValuesReadBack
  JsonFiltersMean
  CatalogRead
  EdgeAnswersTrue
  AggregatesTrue
CHECK_DEADLOCK FALSE
