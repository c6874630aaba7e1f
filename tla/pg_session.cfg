SPECIFICATION Spec
CONSTANTS
  Stub = FALSE
  StmtNames = {"s"}
  PortalNames = {"a", "b"}
  Query <- QPlain
  Empty <- MCEmpty
  Args <- MCArgs
  NullArgs = "null"
  Client = {"nesting"}
INVARIANT TypeOK
INVARIANT TruthfulStatus
INVARIANT AckedIffRun
INVARIANT ErrorSkipsExtended
PROPERTY OneRunPerPair
PROPERTY ImplementsContract
CHECK_DEADLOCK FALSE
