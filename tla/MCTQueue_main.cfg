\* Two producers, two consumers and a closer on a queue of one slot.  The
\* consumers keep calling TQUEUE_pop.  No symmetry: liveness is checked.
SPECIFICATION FairSpec
CONSTANTS
  p1 = p1  p2 = p2  c1 = c1  c2 = c2  x = x
  m1 = m1  m2 = m2  m3 = m3  m4 = m4
  Exit = Exit  Empty = Empty  NoItem = NoItem
  Threads <- MCThreads
  BlockPushers <- MCProducers
  FailPushers <- MCProducers
  ExitPushers <- MCClosers
  Poppers <- MCConsumers
  Pollers <- MCNone
  Items <- MCItems4
  MaxCount = 1
  MaxExits = 1
  SpuriousWakeups = FALSE
  AllocMayFail = FALSE
CHECK_DEADLOCK FALSE
INVARIANTS TypeOK WaitersCounted NoLostFullWakeup OvershootBounded
PROPERTIES ImplementsFifo NobodyStranded
