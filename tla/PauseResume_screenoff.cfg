\* Pausing for the screen, and never for a lost network.
SPECIFICATION Spec
CONSTANTS
  Networks = {wifi, mobile}
  NoNetwork = NoNetwork
  ScreenOffPause = TRUE
  NetChangeReconnect = FALSE
  RepeatedResume = FALSE
  MaxTimers = 2
  MaxCommands = 3
  MaxMessages = 2
INVARIANT PausedForUser
PROPERTY UserPauseKept
