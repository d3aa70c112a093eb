\* CTHREAD_exit and the threads that the exiting thread has started.
SPECIFICATION Spec
CONSTANTS
  t1 = t1  t2 = t2  t3 = t3
  Main = Main  None = None
  Threads <- MCThreads3
  NumStacks = 2
  Modes <- MCPrealloc
SYMMETRY Symmetry
CHECK_DEADLOCK FALSE
INVARIANT ExitStopsChildren
