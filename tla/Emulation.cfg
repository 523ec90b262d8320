SPECIFICATION MCSpec
CONSTANTS
  WordBits = 8
  Memory <- MCMemory
  Operands <- MCOperands
  Lists <- MCLists
  Immediates <- MCImmediates
  RegisterSets <- MCRegisterSets
  UserBank <- MCUserBank
  Block = 4
  RomSize = 12
  ImageSize = 24
  WrittenAt <- MCWrittenAt
  MaxBusWrites = 2
  RamSize = 192
  TopSize = 16
  BiosRams <- MCBiosRams
  BiosCalls <- MCBiosCalls
INVARIANTS
  ReadsAsOnTheGba
  RegistersAsWritten
PROPERTIES
  ArmAsOnTheGba
  ThumbAsOnTheGba
  CallsAsOnTheGba
\* The writes on the bus are bounded.
CHECK_DEADLOCK FALSE
