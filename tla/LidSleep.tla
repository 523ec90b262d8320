------------------------------ MODULE LidSleep ------------------------------
(***************************************************************************)
(* Putting both processors to sleep when the lid closes and waking them    *)
(* when it opens.  Closing is noticed by the ARM7 main loop, which asks    *)
(* the ARM9; the ARM9 echoes the request; the ARM7 then tells the ARM9 to  *)
(* sleep, saves its interrupt enable and power registers and waits in the  *)
(* BIOS for IRQ_LID.  The ARM9 sets the shared flag arm7asleep and halts   *)
(* until the ARM7's lid interrupt handler clears it.  A game that calls    *)
(* the GBA's Stop (SWI 3) enters the same exchange in the middle.          *)
(*                                                                         *)
(* Sources: arm7/source/main.c, arm9/source/Sound_arm.cpp (arm7dmareq),    *)
(* arm9/source/cpumg.cpp (SWI 3), common/gba_ipc.c.  Commands are whole    *)
(* here; how they travel word by word is the subject of IpcChannel.        *)
(***************************************************************************)
EXTENDS Naturals, Sequences

CONSTANTS
  GameStops,  (* TRUE: the game may call Stop                             *)
  Patient,    (* TRUE: the player moves the lid only when the machine is  *)
              (* done with the last move (see MayClose, MayOpen)          *)
  MaxQueue,   (* bound: Stop requests under way at once                   *)
  MaxMoves    (* bound: lid movements                                     *)

ASSUME ConstantsAssumption ==
  /\ GameStops \in BOOLEAN
  /\ Patient \in BOOLEAN
  /\ MaxQueue \in Nat
  /\ MaxMoves \in Nat

VARIABLES
  lid,       (* the hinge, as REG_KEYXY bit 7 shows it                    *)
  moves,     (* lid movements so far                                      *)
  lidFlag,   (* the LID bit of the ARM7's REG_IF                          *)
  biosFlag,  (* the LID bit of the word swiIntrWait watches               *)
  REG_IE,    (* the ARM7's interrupts: all it runs with, LID alone, none  *)
  ie_save,
  PM,        (* the power management control register                     *)
  power,     (* its saved value                                           *)
  lastlidval,
  pc7,       (* the ARM7 main program                                     *)
  inLidIrq,  (* the ARM7 is in lid_open_irq_handler                       *)
  arm9,      (* the ARM9: running the game, or halted                     *)
  arm7asleep,
  to9, to7   (* commands under way to either processor                    *)

lidVars == <<lid, moves>>
irqVars == <<lidFlag, biosFlag, inLidIrq>>
saved == <<REG_IE, ie_save, PM, power>>
vars == <<lidVars, irqVars, saved, lastlidval, pc7, arm9, arm7asleep,
          to9, to7>>

Closing == {"saveIE", "savePower", "setLed", "mask", "intrwait", "waiting"}
Loop == {"receive", "lidTest", "lidStore"}
Commands9 == {"ARM7_REQ_SWI_TO_ARM9", "FIFO_SWI_SLEEPMODE"}
Commands7 == {"ARM9_REQ_SWI_TO_ARM7"}

TypeOK ==
  /\ lid \in {"open", "closed"} /\ lastlidval \in {"open", "closed"}
  /\ moves \in 0 .. MaxMoves
  /\ lidFlag \in BOOLEAN /\ biosFlag \in BOOLEAN /\ inLidIrq \in BOOLEAN
  /\ REG_IE \in {"all", "lid", "none"} /\ ie_save \in {"all", "lid", "none"}
  /\ PM \in {"on", "led", "zero"} /\ power \in {"on", "led", "zero"}
  /\ pc7 \in Loop \cup Closing
  /\ arm9 \in {"running", "asleep"} /\ arm7asleep \in BOOLEAN
  /\ to9 \in Seq(Commands9) /\ to7 \in Seq(Commands7)

(* main() of the ARM7 has set its interrupts up; ie_save and power are     *)
(* globals that start at 0.                                                *)
Init ==
  /\ lid = "open" /\ moves = 0
  /\ lidFlag = FALSE /\ biosFlag = FALSE /\ inLidIrq = FALSE
  /\ REG_IE = "all" /\ ie_save = "none"
  /\ PM = "on" /\ power = "zero"
  /\ lastlidval = "open"
  /\ pc7 = "receive"
  /\ arm9 = "running" /\ arm7asleep = FALSE
  /\ to9 = <<>> /\ to7 = <<>>

-----------------------------------------------------------------------------
(* The ARM7 main program, suspended while the lid handler runs.            *)
Main7(from) == pc7 = from /\ ~ inLidIrq

(* Bug: the ARM9 is not told to sleep.                                     *)
Receive7Alone ==
  /\ Main7("receive")
  /\ to7' = IF to7 = <<>> THEN to7 ELSE Tail(to7)
  /\ pc7' = IF to7 = <<>> THEN "lidTest" ELSE "saveIE"
  /\ UNCHANGED <<lidVars, irqVars, saved, lastlidval, arm9, arm7asleep, to9>>

(* newvalwrite; ARM9_REQ_SWI_TO_ARM7 runs lid_closing_handler, which first *)
(* tells the ARM9 to sleep.                                                *)
Receive7 ==
  /\ Main7("receive")
  /\ IF to7 = <<>>
       THEN /\ pc7' = "lidTest"
            /\ UNCHANGED <<to7, to9>>
       ELSE /\ to7' = Tail(to7)
            /\ to9' = Append(to9, "FIFO_SWI_SLEEPMODE")
            /\ pc7' = "saveIE"
  /\ UNCHANGED <<lidVars, irqVars, saved, lastlidval, arm9, arm7asleep>>

SaveInterrupts ==
  /\ Main7("saveIE")
  /\ ie_save' = REG_IE
  /\ pc7' = "savePower"
  /\ UNCHANGED <<lidVars, irqVars, REG_IE, PM, power, lastlidval, arm9,
                 arm7asleep, to9, to7>>

SavePower ==
  /\ Main7("savePower")
  /\ power' = PM
  /\ pc7' = "setLed"
  /\ UNCHANGED <<lidVars, irqVars, REG_IE, ie_save, PM, lastlidval, arm9,
                 arm7asleep, to9, to7>>

SetLed ==
  /\ Main7("setLed")
  /\ PM' = "led"
  /\ pc7' = "mask"
  /\ UNCHANGED <<lidVars, irqVars, REG_IE, ie_save, power, lastlidval, arm9,
                 arm7asleep, to9, to7>>

(* Bug: the lid interrupt is masked with the others.                       *)
MaskEveryInterrupt ==
  /\ Main7("mask")
  /\ REG_IE' = "none"
  /\ pc7' = "intrwait"
  /\ UNCHANGED <<lidVars, irqVars, ie_save, PM, power, lastlidval, arm9,
                 arm7asleep, to9, to7>>

MaskInterrupts ==
  /\ Main7("mask")
  /\ REG_IE' = "lid"
  /\ pc7' = "intrwait"
  /\ UNCHANGED <<lidVars, irqVars, ie_save, PM, power, lastlidval, arm9,
                 arm7asleep, to9, to7>>

(* swiIntrWait(1, IRQ_LID): an interrupt seen before does not count.       *)
EnterIntrWait ==
  /\ Main7("intrwait")
  /\ biosFlag' = FALSE
  /\ pc7' = "waiting"
  /\ UNCHANGED <<lidVars, lidFlag, inLidIrq, saved, lastlidval, arm9,
                 arm7asleep, to9, to7>>

LeaveIntrWait ==
  /\ Main7("waiting")
  /\ biosFlag
  /\ biosFlag' = FALSE
  /\ pc7' = "lidTest"
  /\ UNCHANGED <<lidVars, lidFlag, inLidIrq, saved, lastlidval, arm9,
                 arm7asleep, to9, to7>>

(* The hinge is read once to see an edge and once more to remember it.     *)
TestLid ==
  /\ Main7("lidTest")
  /\ to9' = IF lid = "closed" /\ lastlidval = "open"
              THEN Append(to9, "ARM7_REQ_SWI_TO_ARM9") ELSE to9
  /\ pc7' = "lidStore"
  /\ UNCHANGED <<lidVars, irqVars, saved, lastlidval, arm9, arm7asleep, to7>>

StoreLid ==
  /\ Main7("lidStore")
  /\ lastlidval' = lid
  /\ pc7' = "receive"
  /\ UNCHANGED <<lidVars, irqVars, saved, arm9, arm7asleep, to9, to7>>

(* The dispatcher acknowledges IRQ_LID, tells the BIOS, and calls          *)
(* lid_open_irq_handler, which begins with a tenth of a second's delay.    *)
EnterLidIrq ==
  /\ lidFlag /\ ~ inLidIrq /\ REG_IE # "none"
  /\ lidFlag' = FALSE
  /\ biosFlag' = TRUE
  /\ inLidIrq' = TRUE
  /\ UNCHANGED <<lidVars, saved, lastlidval, pc7, arm9, arm7asleep, to9, to7>>

(* Bug: the ARM9 is not released.                                          *)
LeaveLidIrqAlone ==
  /\ inLidIrq
  /\ REG_IE' = ie_save
  /\ PM' = power
  /\ lidFlag' = FALSE
  /\ inLidIrq' = FALSE
  /\ UNCHANGED <<lidVars, biosFlag, ie_save, power, lastlidval, pc7, arm9,
                 arm7asleep, to9, to7>>

(* Bug: the sleep light stays on.                                          *)
LeaveLidIrqDimmed ==
  /\ inLidIrq
  /\ REG_IE' = ie_save
  /\ lidFlag' = FALSE
  /\ arm7asleep' = FALSE
  /\ inLidIrq' = FALSE
  /\ UNCHANGED <<lidVars, biosFlag, ie_save, PM, power, lastlidval, pc7, arm9,
                 to9, to7>>

LeaveLidIrq ==
  /\ inLidIrq
  /\ REG_IE' = ie_save
  /\ PM' = power
  /\ lidFlag' = FALSE
  /\ arm7asleep' = FALSE
  /\ inLidIrq' = FALSE
  /\ UNCHANGED <<lidVars, biosFlag, ie_save, power, lastlidval, pc7, arm9,
                 to9, to7>>

-----------------------------------------------------------------------------
(* The ARM9: arm7dmareq takes one command.                                 *)
Echo9 ==
  /\ arm9 = "running"
  /\ to9 # <<>> /\ Head(to9) = "ARM7_REQ_SWI_TO_ARM9"
  /\ to9' = Tail(to9)
  /\ to7' = Append(to7, "ARM9_REQ_SWI_TO_ARM7")
  /\ UNCHANGED <<lidVars, irqVars, saved, lastlidval, pc7, arm9, arm7asleep>>

Sleep9 ==
  /\ arm9 = "running"
  /\ to9 # <<>> /\ Head(to9) = "FIFO_SWI_SLEEPMODE"
  /\ to9' = Tail(to9)
  /\ arm7asleep' = TRUE
  /\ arm9' = "asleep"
  /\ UNCHANGED <<lidVars, irqVars, saved, lastlidval, pc7, to7>>

Wake9 ==
  /\ arm9 = "asleep"
  /\ ~ arm7asleep
  /\ arm9' = "running"
  /\ UNCHANGED <<lidVars, irqVars, saved, lastlidval, pc7, arm7asleep, to9,
                 to7>>

(* BIOScall, SWI 3, which returns to the game without waiting.             *)
Stop9 ==
  /\ GameStops /\ arm9 = "running"
  /\ Len(to7) < MaxQueue
  /\ to7' = Append(to7, "ARM9_REQ_SWI_TO_ARM7")
  /\ UNCHANGED <<lidVars, irqVars, saved, lastlidval, pc7, arm9, arm7asleep,
                 to9>>

-----------------------------------------------------------------------------
(* The player.  A patient one closes the lid of a machine that is awake    *)
(* and has forgotten the last movement, or fast asleep, and opens it again *)
(* when both processors sleep.                                             *)
FastAsleep == /\ pc7 = "waiting" /\ ~ inLidIrq /\ ~ biosFlag
              /\ arm9 = "asleep" /\ arm7asleep /\ to9 = <<>>
Settled == /\ pc7 \in Loop /\ ~ inLidIrq /\ lastlidval = "open"
           /\ arm9 = "running" /\ to9 = <<>> /\ to7 = <<>>
MayClose == Patient => Settled \/ FastAsleep
MayOpen == Patient => FastAsleep

CloseLid ==
  /\ lid = "open" /\ moves < MaxMoves /\ MayClose
  /\ lid' = "closed"
  /\ moves' = moves + 1
  /\ UNCHANGED <<irqVars, saved, lastlidval, pc7, arm9, arm7asleep, to9, to7>>

OpenLid ==
  /\ lid = "closed" /\ moves < MaxMoves /\ MayOpen
  /\ lid' = "open"
  /\ moves' = moves + 1
  /\ lidFlag' = TRUE
  /\ UNCHANGED <<biosFlag, inLidIrq, saved, lastlidval, pc7, arm9, arm7asleep,
                 to9, to7>>

-----------------------------------------------------------------------------
Arm7 == \/ Receive7 \/ SaveInterrupts \/ SavePower \/ SetLed \/ MaskInterrupts
        \/ EnterIntrWait \/ LeaveIntrWait \/ TestLid \/ StoreLid
LidIrq == EnterLidIrq \/ LeaveLidIrq
Fifo9 == Echo9 \/ Sleep9

Next == Arm7 \/ LidIrq \/ Fifo9 \/ Wake9 \/ Stop9 \/ CloseLid \/ OpenLid

(* Both processors keep executing, and the interrupts they enable are      *)
(* taken; the game and the player promise nothing.                         *)
Fairness == WF_vars(Arm7) /\ WF_vars(LidIrq) /\ WF_vars(Fifo9)
            /\ WF_vars(Wake9)

Spec == Init /\ [][Next]_vars
FairSpec == Spec /\ Fairness

-----------------------------------------------------------------------------
(* The flag an ARM9 sleeps on is one the ARM7 is still going to clear: the *)
(* ARM7 is on its way into the wait for the lid, in it, or in the handler. *)
NoLostWakeup ==
  arm9 = "asleep" /\ arm7asleep => pc7 \in Closing \/ inLidIrq

(* What a handler restores was saved by the sleep it ends, and outside a   *)
(* sleep the ARM7 runs with the interrupts and the power it was set up     *)
(* with.                                                                   *)
RestoresWhatWasSaved ==
  /\ inLidIrq => ie_save = "all" /\ power = "on"
  /\ pc7 \in Loop /\ ~ inLidIrq => REG_IE = "all" /\ PM = "on"

(* A close that the ARM7 noticed puts the ARM9 to sleep.                   *)
NoticedCloseSleeps ==
  to9 # <<>> /\ Head(to9) = "ARM7_REQ_SWI_TO_ARM9" ~> arm9 = "asleep"

(* Opening the lid wakes the ARM9.                                         *)
OpeningWakes == lidFlag ~> arm9 = "running"

(* "ARM9 Resume work": once the player leaves the lid open for good, the   *)
(* ARM9 runs again.                                                        *)
OpenLidResumesArm9 == <>[](lid = "open") => []<>(arm9 = "running")
=============================================================================
