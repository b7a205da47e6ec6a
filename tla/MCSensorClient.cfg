SPECIFICATION Spec
CONSTANTS
  BUFFERSIZE <- MCBUFFERSIZE
  DATAQUEUE_SIZE <- MCDATAQUEUE_SIZE
  sample_rate_hz = 1
  duration_seconds = 3
  MaxTimestamps = 2
  MaxEchoes = 2
  MaxInbox = 3
  MaxSamples = 6
INVARIANTS TypeOK SamplesAccounted EchoesFollowRequests
PROPERTIES EndsInTime StopObeyed
CHECK_DEADLOCK FALSE
