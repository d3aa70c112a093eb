\* recv stops anywhere, within a line and behind several requests.
SPECIFICATION WSpec
CONSTANTS
  Requests <- MCRequests
  MaxRequests = 1
  BufSize = 8
  Refusals = FALSE
  MaxFilters = 1
  Servlets = 1
  MaxCalls = 1
  MaxSize = 1
  FrontEnd = "thread"
  Splits = TRUE
  EarlyClose = FALSE
  Lapses <- MCNone
CHECK_DEADLOCK FALSE
INVARIANT ReceivedAsSent
