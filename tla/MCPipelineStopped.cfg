SPECIFICATION FairSpec
CONSTANTS
  Encoders = {"ffmpeg"}
  FrameDepth = 1
  AuDepth = 1
  QueueDepth = 1
  EncoderDepth = 2
  MaxRequests = 1
  MaxAttempts = 1
  Retrying = {}
CHECK_DEADLOCK FALSE
PROPERTY StoppedMeansAllOver
