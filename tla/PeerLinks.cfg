CONSTANTS
  h1 = h1  h2 = h2
  Ids <- ThreeRuns
  Home <- ThreeHomes
  Limit = 3
  MaxKey = 6
  MaxJoins = 1
  MaxStops = 2
  MaxLoss = 1
SPECIFICATION FairSpec
CHECK_DEADLOCK FALSE
INVARIANT KeysAgreeUnlessCrossed
PROPERTIES OneSidedHeals RestartedIsFound
