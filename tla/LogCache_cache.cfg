SPECIFICATION Spec
CONSTANTS
  MAXLOGENTRIES = 2
  MaxLines = 7
  MaxFlushes = 1
  MaxCrashes = 2
  MaxFailures = 2
INVARIANTS
  TypeOK
  CacheKeepsUp
  FileWithinReaderLimit
  InOrderWhenSettled
PROPERTY
  CacheCatchesUp
CHECK_DEADLOCK FALSE
