SPECIFICATION Spec
CONSTANTS
  States = {"WAIT", "CONNECTED"}
  MaxLines = 2
  MaxUpdates = 2
  MaxCrashes = 1
  MaxConnects = 1
  MaxReports = 3
INVARIANTS
  TypeOK
  LinesLostOnlyInGap
  AgreesWhenSettled
PROPERTY
  EventuallyUpToDate
CONSTRAINT ReportsBounded
CHECK_DEADLOCK FALSE
