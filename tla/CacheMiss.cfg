SPECIFICATION Spec
CONSTANTS
  Thread = {t1}
  Bogus = bogus
  Line = {a, b}
  NoLine = none
  RobSize = 3
  LfrqSize = 2
  MbSize = 2
  MaxWakeups = 1
  L2Latency = 1
  L3Latency = 1
  MemLatency = 1
  MaxRecoveries = 1
INVARIANTS TypeOK RequestsMatchLoads WakeupsComplete OneEntryPerLine FetchAwaited
PROPERTIES LoadsReturn FetchResumes
VIEW View
