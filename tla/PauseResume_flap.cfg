\* The same network back within the grace period.
SPECIFICATION Spec
CONSTANTS
  Networks = {wifi, mobile}
  NoNetwork = NoNetwork
  ScreenOffPause = FALSE
  NetChangeReconnect = TRUE
  RepeatedResume = FALSE
  MaxTimers = 2
  MaxCommands = 2
  MaxMessages = 2
PROPERTY UserPauseKept

