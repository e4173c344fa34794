CONSTANTS
  d1 = d1  d2 = d2  d3 = d3  d4 = d4
  Devices <- FourDevices
  Fanout = 3
  Scenarios <- PairsMeetOnce
  Twins = 5
SPECIFICATION Spec
INVARIANT KeysMatch
CHECK_DEADLOCK FALSE
