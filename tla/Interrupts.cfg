SPECIFICATION MCSpec
CONSTANTS
  TimerMod = 4
  UsedTimers <- MCUsedTimers
  MaxTimerWrites = 4
  GameIE <- MCGameIE
  MaxFrames = 2
  LastItem = 3
  MaxMishaps = 1
  BreakTime = 2
INVARIANTS
  InterruptsWaitForTheGame
  HblankDmaOncePerLine
  NoMessageForgotten
  EmulatorKeepsItsInterrupts
PROPERTIES
  MenuOpensForNewFramesOnly
  ContinueLeavesTheMenu
