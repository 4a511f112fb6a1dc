SPECIFICATION MediaSpec
CONSTANTS
  Ring = 4
  MaxCalls = 5
  Ahead = 2
  MftDepth = 3
  MaxFailures = 0
  PumpLimit = 3
  FinishRounds = 2
  MaxRequests = 0
  Pictures <- MCPictures
  Preambles <- MCPreambles
  MaxPictures = 3
  ChunkSizes = {1, 2, 3, 7, 50}
  WindowSizes <- MCWindowSizes
  Border = 1
  Title = 1
  MaxSide = 12
  MaxCap = 16
  Colours <- MCColours
  Alphas = {0, 128, 255}
CHECK_DEADLOCK FALSE
INVARIANT NeverOverwritten
