SPECIFICATION CartridgeSpec
CONSTANTS
  Address <- MCAddress
  Byte <- MCByte
  Payload <- MCPayload
  Narrow = 1
  Wide = 2
  Used = 2
  WordBits = 2
  OtherCounts <- MCOtherCounts
  None = None
  Times <- MCTimes
  TimesSet <- MCTimesSet
  StatusWritten <- MCStatusWritten
  MaxRequests = 2
INVARIANTS
  StatusIsRead
  SavedPartCoversWrites
  AnsweredAsAsked
PROPERTIES
  ImplementsCommands
  ImplementsStore
\* The requests to the clock are bounded.
CHECK_DEADLOCK FALSE
