----------------------------- MODULE Interrupts -----------------------------
(* Interrupts on the ARM9 while a game runs: the entry ex_s.s, the         *)
(* dispatcher, the H-blank and V-blank handlers and the pause menu of      *)
(* irqstuf.arm.cpp, and the registers IE, IF and IME of gba.armcore.cpp.   *)
(* The game's interrupts are the DS's own, with two of the emulator's      *)
(* among them: an H-blank on every line, and a FIFO in which the ARM7      *)
(* tells of every V-blank.                                                 *)
EXTENDS Timers, FiniteSets
CONSTANTS
  GameIE,       \* the interrupt masks the game uses
  MaxFrames,    \* V-blanks the FIFO has room for
  LastItem,     \* of the menu; 5
  MaxMishaps,   \* bound: mishaps in a behaviour
  BreakTime     \* V-blanks before the menu opens again, no fewer than MaxFrames

Irq == {"vblank", "hblank", "keys"}
LowByte == Irq \ {"keys"}     \* in the register's lower byte
Items == 0 .. LastItem        \* of the menu, and one past them
Continue == 2
Mishaps == {"byte", "late", "left", "paused"}

ASSUME InterruptsAssumption ==
  /\ GameIE \subseteq SUBSET Irq
  /\ LastItem \in Nat /\ LastItem > Continue
  /\ MaxFrames \in Nat \ {0} /\ BreakTime \in Nat /\ MaxFrames <= BreakTime /\ MaxMishaps \in Nat

VARIABLES
  pc9,              \* what the ARM9 does
  IE, IME,          \* gba.armcore.cpp's copies
  ioIF,             \* ioMem[0x202]
  REG_IE, REG_IF,   \* the DS's
  disableHBLANKIRQ, \* set by the title
  dueLine,          \* VCountdoit of the DS's line: a line of the GBA begins
  frames,           \* V-blanks waiting in the FIFO
  keysHeld,         \* A, B and up
  ignorenextY, ausgewauhlt,
  gbaIF,            \* history: what the GBA's IF would be
  hblankDma,        \* history: the line's H-blank DMA: "owed", "done" or "twice"
  mishaps,          \* history: what has gone wrong so far
  oldFrames         \* history: frames that waited when the menu was left
irqRegisters == <<IE, IME, ioIF, REG_IE>>
menuVars == <<ignorenextY, ausgewauhlt>>
irqHistory == <<gbaIF, hblankDma, mishaps, oldFrames>>
irqVars == <<pc9, irqRegisters, REG_IF, disableHBLANKIRQ, dueLine, frames, keysHeld,
             menuVars, irqHistory>>

IrqTypeOK ==
  /\ pc9 \in {"game", "fifo", "menu", "after", "handler", "answer", "return"}
  /\ IE \in GameIE \cup {{}} /\ IME \in BOOLEAN
  /\ ioIF \subseteq Irq /\ gbaIF \subseteq Irq
  /\ REG_IE \subseteq Irq \cup {"fifo"} /\ REG_IF \subseteq Irq \cup {"fifo"}
  /\ frames \in 0 .. MaxFrames /\ oldFrames \in 0 .. MaxFrames
  /\ ignorenextY \in 0 .. BreakTime /\ ausgewauhlt \in Items
  /\ mishaps \subseteq Mishaps

(* As main leaves it: it has enabled the emulator's own two.               *)
IrqInit ==
  /\ pc9 = "game"
  /\ IE = {} /\ IME = TRUE /\ ioIF = {}
  /\ REG_IE = {"hblank", "fifo"} /\ REG_IF = {}
  /\ disableHBLANKIRQ \in BOOLEAN /\ dueLine = TRUE
  /\ frames = 0 /\ keysHeld = FALSE
  /\ ignorenextY = 0 /\ ausgewauhlt = Continue
  /\ gbaIF = {} /\ hblankDma = "done" /\ mishaps = {} /\ oldFrames = 0
-----------------------------------------------------------------------------
(* The machine: lines, interrupts, the ARM7's message and the keys.        *)
(* Where no line is told from another, none is mistaken.                   *)
Mishap(m) ==
  IF disableHBLANKIRQ THEN UNCHANGED mishaps
  ELSE /\ m \in mishaps \/ Cardinality(mishaps \ {"paused"}) < MaxMishaps
       /\ mishaps' = mishaps \cup {m}
NextLine ==
  /\ dueLine' \in BOOLEAN
  /\ IF "hblank" \in REG_IF THEN Mishap("late") ELSE UNCHANGED mishaps
  /\ UNCHANGED <<pc9, irqRegisters, REG_IF, disableHBLANKIRQ, frames, keysHeld, menuVars,
                 gbaIF, hblankDma, oldFrames, timerVars>>
Hblank ==
  /\ "hblank" \notin REG_IF
  /\ REG_IF' = REG_IF \cup {"hblank"}
  /\ gbaIF' = IF dueLine THEN gbaIF \cup {"hblank"} ELSE gbaIF
  /\ hblankDma' = IF dueLine THEN "owed" ELSE hblankDma
  /\ UNCHANGED <<pc9, irqRegisters, disableHBLANKIRQ, dueLine, frames, keysHeld, menuVars,
                 mishaps, oldFrames, timerVars>>
Raise(i) ==
  /\ REG_IF' = REG_IF \cup {i} /\ gbaIF' = gbaIF \cup {i}
  /\ UNCHANGED <<pc9, irqRegisters, disableHBLANKIRQ, dueLine, frames, keysHeld, menuVars,
                 hblankDma, mishaps, oldFrames, timerVars>>
(* The FIFO interrupts when it ceases to be empty.                         *)
Frame ==
  /\ frames < MaxFrames
  /\ frames' = frames + 1
  /\ REG_IF' = IF frames = 0 THEN REG_IF \cup {"fifo"} ELSE REG_IF
  /\ UNCHANGED <<pc9, irqRegisters, disableHBLANKIRQ, dueLine, keysHeld, menuVars,
                 irqHistory, timerVars>>
PressOrRelease ==
  /\ keysHeld' = ~keysHeld
  /\ UNCHANGED <<pc9, irqRegisters, REG_IF, disableHBLANKIRQ, dueLine, frames, menuVars,
                 irqHistory, timerVars>>
-----------------------------------------------------------------------------
(* The game's registers.                                                   *)
GameSteps == pc9 = "game" /\ UNCHANGED <<pc9, disableHBLANKIRQ, dueLine, frames, keysHeld, menuVars, timerVars>>
(* Mutant: the upper half of REG_IE is not kept.                           *)
WriteIELow(v) ==
  /\ IE' = v /\ REG_IE' = v \cup {"hblank"}
  /\ mishaps' = mishaps \ {"paused"}
WriteIE(v) ==
  /\ IE' = v /\ REG_IE' = v \cup (REG_IE \cap {"fifo"}) \cup {"hblank"}
  /\ mishaps' = mishaps \ {"paused"}
GameWritesIE(v) ==
  GameSteps /\ WriteIE(v) /\ UNCHANGED <<IME, ioIF, REG_IF, gbaIF, hblankDma, oldFrames>>
GameWritesIME ==
  GameSteps /\ IME' = ~IME /\ UNCHANGED <<IE, ioIF, REG_IE, REG_IF, irqHistory>>
(* Reads of IF fetch the DS's.                                             *)
ReadIF == ioIF' = REG_IF \cap Irq
-----------------------------------------------------------------------------
(* An interrupt: the dispatcher takes the first of the table's handlers    *)
(* whose interrupt is pending, H-blank before FIFO.                        *)
Pending == REG_IE \cap REG_IF
Taken == pc9 = "game" /\ IME

(* CPUCheckDMA(2).                                                         *)
RunHblankDma == hblankDma' = IF hblankDma = "owed" THEN "done" ELSE "twice"
(* An H-blank the game has not enabled is nothing to it.                   *)
AcknowledgeHblank ==
  /\ REG_IF' = REG_IF \ {"hblank"}
  /\ gbaIF' = IF "hblank" \in IE /\ ~disableHBLANKIRQ THEN gbaIF ELSE gbaIF \ {"hblank"}

(* Mutant: lines are not told apart.                                       *)
HandlerOfEveryLine ==
  /\ RunHblankDma
  /\ IF "hblank" \in IE THEN UNCHANGED <<REG_IF, gbaIF>> ELSE AcknowledgeHblank
(* Mutant: the game's lines are acknowledged, the others left to it.       *)
HandlerSwapped ==
  /\ IF dueLine THEN RunHblankDma ELSE UNCHANGED hblankDma
  /\ IF ~dueLine /\ "hblank" \in IE THEN UNCHANGED <<REG_IF, gbaIF>>
     ELSE AcknowledgeHblank
HblankHandler ==
  IF disableHBLANKIRQ THEN RunHblankDma /\ AcknowledgeHblank
  ELSE /\ IF dueLine THEN RunHblankDma ELSE UNCHANGED hblankDma
       /\ IF dueLine /\ "hblank" \in IE THEN UNCHANGED <<REG_IF, gbaIF>>
          ELSE AcknowledgeHblank
TakeHblank ==
  /\ Taken /\ "hblank" \in Pending
  /\ HblankHandler
  /\ pc9' = "after"
  /\ UNCHANGED <<irqRegisters, disableHBLANKIRQ, dueLine, frames, keysHeld, menuVars,
                 mishaps, oldFrames, timerVars>>

(* arm7dmareq acknowledges, and then reads until the FIFO is empty.        *)
AcknowledgeFifo == REG_IF' = REG_IF \ {"fifo"}
TakeFifo ==
  /\ Taken /\ "hblank" \notin Pending /\ "fifo" \in Pending
  /\ AcknowledgeFifo
  /\ pc9' = "fifo"
  /\ UNCHANGED <<irqRegisters, disableHBLANKIRQ, dueLine, frames, keysHeld, menuVars,
                 irqHistory, timerVars>>
TakeOther ==
  /\ Taken /\ Pending # {} /\ Pending \cap {"hblank", "fifo"} = {}
  /\ pc9' = "after"
  /\ UNCHANGED <<irqRegisters, REG_IF, disableHBLANKIRQ, dueLine, frames, keysHeld,
                 menuVars, irqHistory, timerVars>>

(* VblankHandler, for a message of the ARM7's.                             *)
VblankHandler ==
  /\ pc9 = "fifo" /\ frames > 0
  /\ frames' = frames - 1
  /\ IF keysHeld /\ ignorenextY = 0
     THEN /\ pc9' = "menu" /\ ausgewauhlt' = Continue
          /\ REG_IE' = {} /\ StopTimers
          /\ UNCHANGED <<ignorenextY, oldFrames>>
     ELSE /\ ignorenextY' = IF keysHeld THEN ignorenextY - 1 ELSE ignorenextY
          /\ oldFrames' = IF oldFrames > 0 THEN oldFrames - 1 ELSE 0
          /\ UNCHANGED <<pc9, ausgewauhlt, REG_IE, timerVars>>
  /\ UNCHANGED <<IE, IME, ioIF, REG_IF, disableHBLANKIRQ, dueLine, keysHeld, gbaIF,
                 hblankDma, mishaps>>
(* Mutant: one message for every interrupt.                                *)
OneRead == TRUE
Drained == frames = 0
FifoEmpty ==
  /\ pc9 = "fifo" /\ Drained
  /\ pc9' = "after"
  /\ UNCHANGED <<irqRegisters, REG_IF, disableHBLANKIRQ, dueLine, frames, keysHeld,
                 menuVars, irqHistory, timerVars>>

(* Behind the emulator's handler comes the game's, if the game enabled     *)
(* anything of what is pending.                                            *)
Afterwards ==
  /\ pc9 = "after"
  /\ pc9' = IF REG_IF \cap IE # {} THEN "handler" ELSE "game"
  /\ UNCHANGED <<irqRegisters, REG_IF, disableHBLANKIRQ, dueLine, frames, keysHeld,
                 menuVars, irqHistory, timerVars>>
-----------------------------------------------------------------------------
(* The game's handler reads IF, answers some of what it enabled, by a      *)
(* halfword or by the lower byte, and returns.                             *)
HandlerReads ==
  /\ pc9 = "handler"
  /\ ReadIF
  /\ pc9' = "answer"
  /\ UNCHANGED <<IE, IME, REG_IE, REG_IF, disableHBLANKIRQ, dueLine, frames, keysHeld,
                 menuVars, irqHistory, timerVars>>
(* Mutant: the value written is taken for what remains.                    *)
WriteIFInverted(v) == REG_IF' = REG_IF \ (Irq \ v)
WriteIF(v) == REG_IF' = REG_IF \ v
(* A byte is put together with the other half as it was last read.         *)
Merged(x) == x \cup (ioIF \ LowByte)
HandlerAnswers ==
  /\ pc9 = "answer"
  /\ \E x \in SUBSET (ioIF \cap IE) \ {{}} :
       /\ \/ WriteIF(x) /\ UNCHANGED mishaps
          \/ /\ x \subseteq LowByte
             /\ WriteIF(Merged(x))
             /\ IF Merged(x) = x THEN UNCHANGED mishaps ELSE Mishap("byte")
       /\ gbaIF' = gbaIF \ x
  /\ pc9' = "return"
  /\ UNCHANGED <<IE, IME, ioIF, REG_IE, disableHBLANKIRQ, dueLine, frames, keysHeld,
                 menuVars, hblankDma, oldFrames, timerVars>>
HandlerReturns ==
  /\ pc9 = "return"
  /\ pc9' = "game"
  /\ IF "hblank" \in REG_IF THEN Mishap("left") ELSE UNCHANGED mishaps
  /\ UNCHANGED <<irqRegisters, REG_IF, disableHBLANKIRQ, dueLine, frames, keysHeld,
                 menuVars, gbaIF, hblankDma, oldFrames, timerVars>>
-----------------------------------------------------------------------------
MenuMoves ==
  /\ pc9 = "menu"
  /\ \/ ausgewauhlt # LastItem /\ ausgewauhlt' = ausgewauhlt + 1
     \/ ausgewauhlt # 0 /\ ausgewauhlt' = ausgewauhlt - 1
  /\ UNCHANGED <<pc9, irqRegisters, REG_IF, disableHBLANKIRQ, dueLine, frames, keysHeld,
                 ignorenextY, irqHistory, timerVars>>

(* A on Continue.  The loop that was to drain the FIFO returns if there is *)
(* anything in it; the break after it goes back to the menu.               *)
(* Mutants: no break, and one too long.                                    *)
NoBreak == 0
Break == BreakTime
(* Mutant: the loop runs while the FIFO is empty.                          *)
LeavesWhenEmpty == frames = 0
Leaves == frames > 0
MenuContinues ==
  /\ pc9 = "menu" /\ ausgewauhlt = Continue
  /\ RestartTimers
  /\ REG_IE' = IE \cup {"fifo"}
  /\ mishaps' = mishaps \cup {"paused"}
  /\ IF Leaves
     THEN pc9' = "fifo" /\ ignorenextY' = Break /\ oldFrames' = frames
     ELSE UNCHANGED <<pc9, ignorenextY, oldFrames>>
  /\ UNCHANGED <<IE, IME, ioIF, REG_IF, disableHBLANKIRQ, dueLine, frames, keysHeld,
                 ausgewauhlt, gbaIF, hblankDma>>

IrqNext ==
  \/ NextLine \/ Hblank \/ Frame \/ PressOrRelease
  \/ \E i \in (UNION GameIE) \ {"hblank"} : Raise(i)
  \/ \E v \in GameIE : GameWritesIE(v)
  \/ GameWritesIME
  \/ TakeHblank \/ TakeFifo \/ TakeOther \/ VblankHandler \/ FifoEmpty \/ Afterwards
  \/ HandlerReads \/ HandlerAnswers \/ HandlerReturns
  \/ MenuMoves \/ MenuContinues
HandlersInit == IrqInit /\ TimersInit
IrqSpec == HandlersInit /\ [][IrqNext]_<<irqVars, timerVars>>
-----------------------------------------------------------------------------
(* What the game enabled and the GBA would have pending is pending on the  *)
(* DS until the game answers it: neither the emulator's own handlers nor   *)
(* the menu lose any.  Excepted are a byte written to IF while the other   *)
(* byte, as last read, had something pending, and an H-blank whose line is *)
(* over before it is looked at.                                            *)
InterruptsWaitForTheGame ==
  ~disableHBLANKIRQ /\ mishaps \cap {"byte", "late"} = {} => gbaIF \cap IE \subseteq REG_IF

(* The H-blank DMA runs once for a line of the GBA and never for another   *)
(* of the DS's, if the game's handler never leaves an H-blank pending.     *)
HblankDmaOncePerLine ==
  ~disableHBLANKIRQ /\ mishaps \cap {"left", "late"} = {} => hblankDma # "twice"

(* arm7dmareq: a message that waits has its interrupt pending; the FIFO    *)
(* does not interrupt again for those behind it.                           *)
NoMessageForgotten ==
  frames > 0 /\ pc9 \notin {"fifo", "menu"} => "fifo" \in REG_IF

(* Whatever the game writes to IE, and after the menu, the emulator still  *)
(* hears from the ARM7 and of H-blanks; of these not between leaving the   *)
(* menu and the game's next write.                                         *)
EmulatorKeepsItsInterrupts ==
  pc9 # "menu" => /\ "fifo" \in REG_IE
                  /\ "paused" \in mishaps \/ "hblank" \in REG_IE
                  /\ IE \subseteq REG_IE

(* VblankHandler ("1 sec break time"): the V-blanks that waited while the  *)
(* menu was open do not open it again, though the keys may still be held.  *)
MenuOpensForNewFramesOnly ==
  [][pc9 = "fifo" /\ pc9' = "menu" => oldFrames = 0]_irqVars

(* The menu can be left: somebody who stays on Continue and presses A       *)
(* comes out of it, as long as the ARM7 goes on telling of V-blanks.       *)
ContinueLeavesTheMenu ==
  pc9 = "menu" /\ ausgewauhlt = Continue ~> pc9 # "menu" \/ ausgewauhlt # Continue
IrqFairness == WF_<<irqVars, timerVars>>(Frame) /\ WF_<<irqVars, timerVars>>(MenuContinues)
=============================================================================
