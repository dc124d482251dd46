SPECIFICATION EventsSpec
CONSTANTS
  Lines <- MCLines
  Bad = {1}
  MaxLine = 1
  Chunk = 2
  MaxRuns = 1
  RingLimit = 2
  PageMax = 1
  MaxShown = 2
  MaxEvents = 3
INVARIANTS GivenIsTheFile ScreenShowsItsRun
PROPERTIES BuildEnds EndIsShown
CHECK_DEADLOCK FALSE
