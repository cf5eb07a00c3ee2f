\* One session; its activity may be created again.
SPECIFICATION Spec
CONSTANTS
  Sessions = {s1}
  Records = {r1, r2}
  None = None
  MaxActivities = 2
  MaxReports = 2
  MaxTasks = 1
INVARIANT ReconnectCreatesNoRecord
CHECK_DEADLOCK FALSE
