\* Two workers and one sender on a queue of one slot; creation may fail.
SPECIFICATION FairSpec
CONSTANTS
  w1 = w1  w2 = w2  s1 = s1  m1 = m1  m2 = m2  m3 = m3
  Exit = Exit  Empty = Empty  NoItem = NoItem  Owner = Owner
  Workers <- MCWorkers
  Senders <- MCSenders
  Items <- MCItems
  MaxCount = 1
  CreateMayFail = TRUE
CHECK_DEADLOCK FALSE
INVARIANTS  TakenIsHandled NoCallbackAfterFree
  
