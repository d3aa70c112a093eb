\* One thread resets the barrier at any time while the others meet, another one
\* resets it when nobody is inside, a third frees it after its last await; each
\* thread awaits up to twice.
SPECIFICATION FairSpec
CONSTANTS
  t1 = t1  t2 = t2  t3 = t3
  Threads <- MCThreads
  Parties = 3
  MaxAwaits = 2
  MaxResets = 2
  Cancellers <- MCOne
  Recyclers <- MCTwo
  Freers <- MCThree
CHECK_DEADLOCK FALSE
INVARIANTS NobodyContinuesEarly
PROPERTIES ResetReleases
