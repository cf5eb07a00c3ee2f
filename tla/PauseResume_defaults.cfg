\* The preferences as installed: no pause for the screen, pause for a lost network.
SPECIFICATION FairSpec
CONSTANTS
  Networks = {wifi, mobile}
  NoNetwork = NoNetwork
  ScreenOffPause = FALSE
  NetChangeReconnect = TRUE
  RepeatedResume = FALSE
  MaxTimers = 2
  MaxCommands = 2
  MaxMessages = 2
INVARIANTS
  TypeOK
  NoLostHold
  RunsWhenWanted
  PausedWithoutNetwork
PROPERTIES
  ReleaseAllowed
  EventuallyRuns
