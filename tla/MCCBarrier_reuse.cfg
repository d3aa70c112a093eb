\* The barrier is used a second time, after a reset that finds nobody inside.
SPECIFICATION Spec
CONSTANTS
  t1 = t1  t2 = t2  t3 = t3
  Threads <- MCThreads
  Parties = 3
  MaxAwaits = 2
  MaxResets = 1
  Cancellers <- MCNone
  Recyclers <- MCOne
  Freers <- MCNone
CHECK_DEADLOCK FALSE
INVARIANT ReusableAfterReset
