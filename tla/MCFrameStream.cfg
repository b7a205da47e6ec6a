CONSTANTS
  Directions = {"to_client", "to_host"}
  PingSize = 2
  TimestampSize = 2
  MaxFrames = 4
SPECIFICATION Spec
PROPERTIES ImplementsChannel FramesArrive
CHECK_DEADLOCK FALSE
