CONSTANTS
  a = a  b = b
  Texts <- TwoTexts
  ApplyCap = 2
  EventCap = 1
  MaxCopies = 2
  MaxArrivals = 3
  MaxFaults = 1
SPECIFICATION FairSpec
CHECK_DEADLOCK FALSE
PROPERTIES OnlyLocalNews CopyIsReported CancelIsHonoured
