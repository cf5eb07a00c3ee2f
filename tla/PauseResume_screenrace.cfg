\* The screen coming on while updateByteCount decides.
SPECIFICATION Spec
CONSTANTS
  Networks = {wifi, mobile}
  NoNetwork = NoNetwork
  ScreenOffPause = TRUE
  NetChangeReconnect = FALSE
  RepeatedResume = FALSE
  MaxTimers = 2
  MaxCommands = 2
  MaxMessages = 2
INVARIANT ScreenPauseOnlyWhenOff

