\* Two start commands, which may overlap.
SPECIFICATION Spec
CONSTANTS
  Sessions = {s1, s2}
  NoSession = NoSession
SYMMETRY Symmetry
INVARIANTS
  TypeOK
  OneReceiver
  ReceiverDrivesCurrent
  StopReaches
  IdleServiceStops
CHECK_DEADLOCK FALSE
