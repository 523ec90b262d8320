\* A player who waits for the sleep light, a game that may stop the machine.
SPECIFICATION FairSpec
CONSTANTS
  GameStops = TRUE
  Patient = TRUE
  MaxQueue = 2
  MaxMoves = 6
INVARIANTS
  NoLostWakeup
  RestoresWhatWasSaved
PROPERTIES
  NoticedCloseSleeps
  OpeningWakes
CHECK_DEADLOCK FALSE
