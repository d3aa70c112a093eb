\* Two requests on a connection of the threaded server, with servlets that keep
\* their contract and a buffer that has room for the response header.
SPECIFICATION FairSpec
CONSTANTS
  Requests <- MCRequests
  MaxRequests = 2
  BufSize = 8
  Refusals = FALSE
  MaxFilters = 1
  Servlets = 2
  MaxCalls = 3
  MaxSize = 2
  FrontEnd = "thread"
  Splits = FALSE
  EarlyClose = FALSE
  Lapses <- MCNone
CHECK_DEADLOCK FALSE
INVARIANTS WTypeOK  AnsweredInFull 
 
