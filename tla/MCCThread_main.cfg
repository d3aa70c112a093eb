\* Three coroutines on a pool of two stacks, or one that makes them on demand.
SPECIFICATION Spec
CONSTANTS
  t1 = t1  t2 = t2  t3 = t3
  Main = Main  None = None
  Threads <- MCThreads3
  NumStacks = 2
  Modes <- MCAllModes
SYMMETRY Symmetry
CHECK_DEADLOCK FALSE
INVARIANTS TypeOK ControlNested StacksExclusive UnmappedUnused YieldedOnce
PROPERTIES KillEndsThread
