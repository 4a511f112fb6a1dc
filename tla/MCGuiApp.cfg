SPECIFICATION FairSpec
CONSTANTS
  MaxRuns = 3
  MaxClicks = 4
CHECK_DEADLOCK FALSE
INVARIANTS TypeOK NoRunIsLost PageKnowsWhatRuns StoriesDoNotMix
PROPERTIES StopsAreShown WindowCloses
