SPECIFICATION MediaSpec
CONSTANTS
  Ring = 3
  MaxCalls = 4
  Ahead = 2
  MftDepth = 2
  MaxFailures = 1
  PumpLimit = 3
  FinishRounds = 2
  MaxRequests = 2
  Pictures <- MCPictures
  Preambles <- MCPreambles
  MaxPictures = 3
  ChunkSizes = {1, 2, 3, 7, 50}
  WindowSizes <- MCWindowSizes
  Border = 1
  Title = 1
  MaxSide = 12
  MaxCap = 16
  Colours <- MCColours
  Alphas = {0, 128, 255}
CHECK_DEADLOCK FALSE
INVARIANTS GpuTypeOK SurfacesIntact RequestsAreAccountedFor KeyframeNotForgotten UnitsArePictures GrabShowsTheWindow ScalingIsSound PictureSurvives
PROPERTIES ImplementsVideo QueuedIsEncoded KeyframeIsMade GpuLoopEnds
