\* The program ends, and with MaxScore points given it is not started again.
SPECIFICATION FairSpec
CONSTANTS
  Canvases <- MCCanvases
  MaxScore = 1
INVARIANT DrawIsMutual
PROPERTIES TrailsNeverMeet WinnerIsUnharmed GameEnds
CHECK_DEADLOCK FALSE
