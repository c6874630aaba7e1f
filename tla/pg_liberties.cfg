SPECIFICATION Spec
CONSTANTS
  Stub = TRUE
  StmtNames = {"s"}
  PortalNames = {"a"}
  Query <- QLiberal
  Empty <- MCEmpty
  Args <- MCArgs
  NullArgs = "null"
  Client = {"mixing", "nesting", "pipelining"}
INVARIANT ErrorSkipsExtended
PROPERTY OneRunPerPair
CHECK_DEADLOCK FALSE
