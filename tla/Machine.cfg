SPECIFICATION MachineSpec
CONSTANTS
  Size = 16
  RomAt = 10
  RomSize = 4
  ImageSize = 16
  Longest = 1
  Game <- MCGame
  MaxStarts = 2
  None = None
  TimerMod = 4
  UsedTimers <- MCUsedTimers
  MaxTimerWrites = 4
  ReadAt <- MCReadAt
  LcdWrites <- MCLcdWrites
  Displays <- MCDisplays
  FrameSkip = 1
  MaxLcdWrites = 3
  Setups <- MCSetups
  SoundWrites <- MCSoundWrites
  SoundBytes <- MCSoundBytes
  MaxSoundWrites = 3
  MaxRefills = 2
INVARIANTS
  RepeatsKeepPaceOrPlace
  TimersAsOnTheGba
  EveryGbaLineOnce
  LayersAreOfTheirKind
  FreshRegistersAreShown
  SoundsAsAsked
PROPERTIES
  TransfersAsOnTheGba
\* The DMA channels and the timers of a game are written, and the sound is refilled, a bounded number of times.
CHECK_DEADLOCK FALSE
