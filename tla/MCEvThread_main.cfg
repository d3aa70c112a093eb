\* Two threads, two sockets, two descriptors.
SPECIFICATION FairSpec
CONSTANTS
  a = a  b = b  s1 = s1  s2 = s2  f1 = f1  f2 = f2
  None = None
  Threads <- MCThreads
  Sockets <- MCSockets
  Fds <- MCTwoFds
  BufSize = 2
  MallocFails = {"socket"}
  FalseAlarms = TRUE
  ReturnsClean = TRUE
CHECK_DEADLOCK FALSE
INVARIANTS TypeOK   NothingLeftOpen
PROPERTIES CallsReturn
