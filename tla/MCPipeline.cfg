SPECIFICATION FairSpec
CONSTANTS
  Encoders = {"ffmpeg", "mf_async", "mf_sync", "missing"}
  FrameDepth = 1
  AuDepth = 1
  QueueDepth = 1
  EncoderDepth = 2
  MaxRequests = 1
  MaxAttempts = 2
  Retrying = {"ffmpeg", "missing"}
CHECK_DEADLOCK FALSE
INVARIANTS TypeOK NothingStaleIsSent
PROPERTIES EventsInOrder CaptureNeverStalls WorkersEndTogether ImplementsPromise
