\* Two requests of thirteen kinds, split in every way, in a buffer that lines
\* fill and bodies overflow.  Callbacks may fail.
SPECIFICATION Spec
CONSTANTS
  Requests <- MCRequests
  MaxRequests = 2
  BufSize = 4
  Refusals = TRUE
CHECK_DEADLOCK FALSE
INVARIANTS ReceivedAsSent FinishedWhenReceived RejectsTheMalformed ReadyForMore
