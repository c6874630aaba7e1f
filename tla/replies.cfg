SPECIFICATION Spec
CONSTANTS
  Stub = TRUE
  Half <- MCHalf
  DateTimeEnd = 4
  PgEpoch = 1
  MaxSpan = 9
  Instants <- MCInstants
  Results <- MCResults
  MyTexts <- MCMyTexts
  PgTexts <- MCPgTexts
  Bound <- MCBound
  FewResults <- MCFewResults
  Formats <- MCFormats
  TempTables = 2
  BlockInfo = 3
  ServerLogs = 4
  AddendumRevision = 5
  serverRevision = 6
  Revisions <- MCRevisions
  MaxRequests = 3
CHECK_DEADLOCK FALSE
INVARIANT TypeOK
INVARIANT LossReported
INVARIANT ShowsLastWarnings
INVARIANT ArgsInPlace
INVARIANT InStep
PROPERTY Answered
