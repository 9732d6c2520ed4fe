CONSTANTS
  t1 = t1
  t2 = t2
  Reopener = Reopener
  None = None
  Threads = {t1, t2}
  MaxGen = 2
  MaxCalls = 2
  MaxFails = 1
SPECIFICATION FairSpec
INVARIANTS TypeOK ReadersCounted ChangeIsVisible
PROPERTIES NeverOlder CallsEnd
CHECK_DEADLOCK FALSE
