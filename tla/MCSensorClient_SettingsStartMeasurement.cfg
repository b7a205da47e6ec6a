SPECIFICATION Spec
CONSTANTS
  BUFFERSIZE <- MCBUFFERSIZE
  DATAQUEUE_SIZE <- MCDATAQUEUE_SIZE
  sample_rate_hz = 1
  duration_seconds = 0
  MaxTimestamps = 1
  MaxEchoes = 2
  MaxInbox = 2
  MaxSamples = 4
PROPERTY SettingsStartMeasurement
CHECK_DEADLOCK FALSE
