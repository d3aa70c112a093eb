\* Three runners, with and without a cleanup callback.
SPECIFICATION FairSpec
CONSTANTS
  r1 = r1  r2 = r2  r3 = r3  Main = Main
  Runners <- MCRunners
  Cleanups <- MCBoth
CHECK_DEADLOCK FALSE
INVARIANTS TypeOK PhasesDoNotOverlap ObjectOutlivesRunners DestroyedOnlyWhenQuiet
PROPERTIES ImplementsBarrier RunReturns
