SPECIFICATION Spec
CONSTANTS
  None = None
  Literal = Literal
  Client = Client
  Postgres = Postgres
  Sqlite = Sqlite
  Cascade = Cascade
  NoAction = NoAction
  FieldOrder <- MCFieldOrder
  Schemas <- MCSchemas
\* A database that has drifted from its schema is not edited any more.
CHECK_DEADLOCK FALSE
INVARIANTS PlanWorks DataSafe
