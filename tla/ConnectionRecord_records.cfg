\* Two sessions; a record each and one to spare; one new activity.  Once a start that
\* overlaps has begun nothing is claimed any more.
SPECIFICATION Spec
CONSTANTS
  Sessions = {s1, s2}
  Records = {r1, r2, r3}
  None = None
  MaxActivities = 2
  MaxReports = 2
  MaxTasks = 2
INVARIANTS
  TypeOK
  LiveRecordStaysOpen
  OneRecordPerSession
  UpdatesReachTheirRecord
  IdleRecordsClosed
CONSTRAINTS
  OverlapNotTaken
  RestartUndivided
ACTION_CONSTRAINT OneRestart
CHECK_DEADLOCK FALSE
