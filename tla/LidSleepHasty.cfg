\* A player who opens the lid again at once.
SPECIFICATION FairSpec
CONSTANTS
  GameStops = FALSE
  Patient = FALSE
  MaxQueue = 2
  MaxMoves = 4
PROPERTIES
  OpenLidResumesArm9
CHECK_DEADLOCK FALSE
