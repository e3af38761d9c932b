CONSTANTS
  p1 = p1  p2 = p2  p3 = p3  t1 = t1  t2 = t2
  CachePlayers = {p1, p2, p3}
  Threads = {t1, t2}
  MaxEntries = 1
  MaxClock = 7
SPECIFICATION CacheSpec
CHECK_DEADLOCK FALSE
SYMMETRY Interchangeable
INVARIANT CacheTypeOK
INVARIANT EntriesQueued
PROPERTY EvictsOldest
