\* A sound timer cuts into the main loop's send, nothing else goes wrong.
SPECIFICATION Spec
CONSTANTS
  Command <- MCCommand
  CheatCommand <- MCCheatCommand
  Readers <- MCPairs
  Argument <- MCArgument
  Interrupting <- MCInterrupting
  FifoWords = 6
  MaxSent = 2
  WholeSends = TRUE
  NeverFull = TRUE
  None = None
INVARIANTS
  LidArgumentIsItsOwn
CHECK_DEADLOCK FALSE
