SPECIFICATION StorageSpec
CONSTANTS
  Sector <- MCSector
  Streamed <- MCStreamed
  Layout <- MCLayout
  buffslots = 3
  MaxTransfer = 3
  Blanked <- MCBlanked
  Stray = Stray
  sectorsize = 2
  sectorsPerCluster = 3
  Cluster <- MCCluster
  FileSize <- MCFileSize
  CLUSTER_EOF = 99
  dataStart = 10
  Uncached = Uncached
  Junk = Junk
  Setups <- MCFitting
  MaxWrites = 3
  MaxSessions = 3
  None = None
  Absent = Absent
INVARIANTS
  TypeOK
  Coherent
  SlotsAndOwnersAgree
  MapsWholeFile
  OverrunsUnlessLastClusterIsUsed
  SavedIsRestored
  LargeGameHasLargeChip
PROPERTIES
  ImplementsRomImage
  TransfersEnd
\* generatefilemap returns, and after the last session the power stays off.
CHECK_DEADLOCK FALSE
