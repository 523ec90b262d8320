\* EveryFileStartsBlank of every length.
SPECIFICATION MapSpec
CONSTANTS
  sectorsize = 2
  sectorsPerCluster = 3
  Cluster <- MCCluster
  FileSize <- MCFileSize
  CLUSTER_EOF = 99
  dataStart = 10
  Uncached = Uncached
  Junk = Junk
INVARIANTS
  EveryFileStartsBlank
CHECK_DEADLOCK FALSE
