\* The same threads when waits return without a signal, malloc fails and the
\* consumers poll as well.
SPECIFICATION Spec
CONSTANTS
  p1 = p1  p2 = p2  c1 = c1  c2 = c2  x = x
  m1 = m1  m2 = m2  m3 = m3  m4 = m4
  Exit = Exit  Empty = Empty  NoItem = NoItem
  Threads <- MCThreads
  BlockPushers <- MCProducers
  FailPushers <- MCNone
  ExitPushers <- MCClosers
  Poppers <- MCConsumers
  Pollers <- MCConsumers
  Items <- MCItems3
  MaxCount = 2
  MaxExits = 1
  SpuriousWakeups = TRUE
  AllocMayFail = TRUE
SYMMETRY Symmetry
CHECK_DEADLOCK FALSE
INVARIANTS NoLostEmptyWakeup
