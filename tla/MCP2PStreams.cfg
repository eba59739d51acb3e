SPECIFICATION Spec
CONSTANTS
  Channels = {0, 1}
  EnergySaving = TRUE
  Bounds <- MCBounds
INVARIANTS TypeOK Watched EndIsTold BatteryCloseWaits
PROPERTIES StopIsObeyed
CHECK_DEADLOCK FALSE
