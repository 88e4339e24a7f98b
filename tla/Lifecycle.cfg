SPECIFICATION FairSpec
CONSTANTS
  Keys = {k1, k2}
  Workers = {w1, w2}
  MaxSignals = 3
  Absent = Absent
INVARIANTS LifecycleTypeOK NoSyncBeforeCaches
PROPERTIES StartsUp StopsWhenTold ImplementsFactory
CHECK_DEADLOCK FALSE
