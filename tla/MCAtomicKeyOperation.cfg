\* Three threads, two keys: two threads meet on one key while a third creates
\* and removes entries. Four counters: one per thread and one kept by a leak.
CONSTANTS
  Threads = {t1, t2, t3}
  Keys = {k1, k2}
  Counters = {c1, c2, c3, c4}
  NoThread = NoThread
  NoKey = NoKey
  NoCounter = NoCounter
  MaxLeaks = 1
SPECIFICATION FairSpec
INVARIANTS TypeOK MutualExclusion OneCounterPerKey RefCountExact EntriesReclaimed
PROPERTIES ImplementsKeyMutex KeyProgress
