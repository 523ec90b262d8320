\* Timers that cut in, pairs read half, a FIFO that fills up, both readers.
SPECIFICATION Spec
CONSTANTS
  Command <- MCCommand
  CheatCommand <- MCCheatCommand
  Readers <- MCReaders
  Argument <- MCArgument
  Interrupting <- MCInterrupting
  FifoWords = 4
  MaxSent = 2
  WholeSends = FALSE
  NeverFull = FALSE
  None = None
INVARIANTS
  NoCommandInvented
  InterleavingKeepsPairing
  CheatHandlerRunsItsOwn
PROPERTIES
  UndisturbedIsCommandQueue
\* Every command has been sent and read.
CHECK_DEADLOCK FALSE
