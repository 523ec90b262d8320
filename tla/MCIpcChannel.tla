---------------------------- MODULE MCIpcChannel -----------------------------
(* IpcChannel for TLC, as the ARM7 sends to the ARM9: the vertical blank   *)
(* and the lid request of the main loop, the sample request of a timer.    *)
EXTENDS IpcChannel

MCCommand == {"vblank", "lid", "samples"}
MCArgument == [c \in MCCommand |-> IF c = "lid" THEN "IRQ_LID" ELSE "0"]
MCCheatCommand == {"vblank", "samples"}
MCReaders == {"pairs", "single"}
MCPairs == {"pairs"}
MCInterrupting == {"samples"}

(* "val1 == IRQ_LID": the lid request is run with the interrupts it was    *)
(* sent with (arm7dmareq, the answer to ARM7_REQ_SWI_TO_ARM9).             *)
LidArgumentIsItsOwn == ArgumentIsItsOwn("lid")
=============================================================================
