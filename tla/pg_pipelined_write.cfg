SPECIFICATION Spec
CONSTANTS
  Stub = FALSE
  StmtNames = {"s"}
  PortalNames = {"a"}
  Query <- QInsert
  Empty <- MCEmpty
  Args <- MCArgs
  NullArgs = "null"
  Client = {"pipelining"}
INVARIANT AckedIffRun
CHECK_DEADLOCK FALSE
