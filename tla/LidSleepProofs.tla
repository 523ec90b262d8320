--------------------------- MODULE LidSleepProofs ----------------------------
(***************************************************************************)
(* For any number of lid movements and of Stops under way: whoever waits   *)
(* with opening the lid until the machine sleeps always finds the ARM9 on  *)
(* a flag that will be cleared, and gets back the interrupts and the power *)
(* that the sleep took.                                                    *)
(***************************************************************************)
EXTENDS LidSleep, TLAPS, SequenceTheorems

(* The ARM9 is still going to be told to sleep.                            *)
SleepUnderWay(q) == \E i \in 1 .. Len(q) : q[i] = "FIFO_SWI_SLEEPMODE"

(* The ARM9 is told to sleep, and sleeps, only while the ARM7 is on its    *)
(* way into the wait.                                                      *)
SleepOnlyWhileClosing ==
  SleepUnderWay(to9) \/ arm7asleep => pc7 \in Closing

(* The lid's interrupt finds the ARM7 in the wait and ends it there, and   *)
(* nobody is told to sleep any more when it comes.                         *)
InterruptEndsTheWait ==
  /\ lidFlag => pc7 = "waiting" /\ ~ inLidIrq /\ ~ biosFlag
  /\ inLidIrq => biosFlag
  /\ biosFlag => pc7 = "waiting"
  /\ biosFlag /\ ~ inLidIrq => ~ arm7asleep
  /\ lidFlag \/ biosFlag => ~ SleepUnderWay(to9)

(* How far the saving of the two registers is, and what it found.          *)
SavedSoFar ==
  /\ pc7 \in Loop \cup {"saveIE"} => REG_IE = "all" /\ PM = "on"
  /\ pc7 = "savePower" => REG_IE = "all" /\ ie_save = "all" /\ PM = "on"
  /\ pc7 \in {"setLed", "mask", "intrwait", "waiting"} =>
       ie_save = "all" /\ power = "on"
  /\ biosFlag /\ ~ inLidIrq => REG_IE = "all" /\ PM = "on"

LidInv == /\ TypeOK
          /\ SleepOnlyWhileClosing
          /\ InterruptEndsTheWait
          /\ SavedSoFar

-----------------------------------------------------------------------------
(* A command put behind the others is the only one a queue gains.          *)
LEMMA QueueGains ==
  ASSUME NEW S, NEW q \in Seq(S), NEW c \in S
  PROVE  /\ Append(q, c) \in Seq(S)
         /\ c # "FIFO_SWI_SLEEPMODE" =>
              (SleepUnderWay(Append(q, c)) <=> SleepUnderWay(q))
<1>1. /\ Append(q, c) \in Seq(S)
      /\ Len(Append(q, c)) = Len(q) + 1
      /\ \A i \in 1 .. Len(q) : Append(q, c)[i] = q[i]
      /\ Append(q, c)[Len(q) + 1] = c
  BY AppendProperties
<1>2. Len(q) \in Nat
  BY LenProperties
<1> QED
  BY <1>1, <1>2 DEF SleepUnderWay

(* Taking the first command of a queue leaves no others than were there.   *)
LEMMA QueueLoses ==
  ASSUME NEW S, NEW q \in Seq(S), q # <<>>
  PROVE  /\ Tail(q) \in Seq(S)
         /\ SleepUnderWay(Tail(q)) => SleepUnderWay(q)
         /\ Head(q) = "FIFO_SWI_SLEEPMODE" => SleepUnderWay(q)
<1>1. /\ Tail(q) \in Seq(S) /\ Len(Tail(q)) = Len(q) - 1
      /\ \A i \in 1 .. Len(Tail(q)) : Tail(q)[i] = q[i + 1]
      /\ Head(q) = q[1] /\ Len(q) \in Nat /\ Len(q) >= 1
  BY HeadTailProperties, EmptySeq, LenProperties
<1> QED
  BY <1>1 DEF SleepUnderWay

(* There is nothing in an empty queue.                                     *)
LEMMA NothingUnderWay ==
  /\ \A S : <<>> \in Seq(S)
  /\ ~ SleepUnderWay(<<>>)
BY EmptySeq DEF SleepUnderWay

-----------------------------------------------------------------------------
(* Every variable keeps its type.                                          *)
LEMMA StepKeepsTypes ==
  ASSUME ConstantsAssumption, TypeOK, [Next]_vars
  PROVE  TypeOK'
<1> USE DEF TypeOK, Loop, Closing, vars, lidVars, irqVars, saved
<1>1. CASE Arm7
  <2>1. CASE Receive7
    <3>1. Append(to9, "FIFO_SWI_SLEEPMODE") \in Seq(Commands9)
      BY QueueGains DEF Commands9
    <3>2. to7 # <<>> => Tail(to7) \in Seq(Commands7)
      BY QueueLoses DEF Commands7
    <3>3. CASE to7 = <<>>
      BY <2>1, <3>3 DEF Receive7, Main7
    <3>4. CASE to7 # <<>>
      <4>1. to9' \in Seq(Commands9) /\ to7' \in Seq(Commands7)
        BY <2>1, <3>1, <3>2, <3>4 DEF Receive7
      <4> QED
        BY <2>1, <3>4, <4>1 DEF Receive7, Main7
    <3> QED
      BY <3>3, <3>4
  <2>2. CASE TestLid
    <3>1. Append(to9, "ARM7_REQ_SWI_TO_ARM9") \in Seq(Commands9)
      BY QueueGains DEF Commands9
    <3> QED
      BY <2>2, <3>1 DEF TestLid, Main7
  <2>3. CASE SaveInterrupts \/ SavePower \/ SetLed \/ MaskInterrupts
    BY <2>3 DEF SaveInterrupts, SavePower, SetLed, MaskInterrupts, Main7
  <2>4. CASE EnterIntrWait \/ LeaveIntrWait \/ StoreLid
    BY <2>4 DEF EnterIntrWait, LeaveIntrWait, StoreLid, Main7
  <2> QED
    BY <1>1, <2>1, <2>2, <2>3, <2>4 DEF Arm7
<1>2. CASE LidIrq
  BY <1>2 DEF LidIrq, EnterLidIrq, LeaveLidIrq
<1>3. CASE Echo9 \/ Stop9
  <2>1. Append(to7, "ARM9_REQ_SWI_TO_ARM7") \in Seq(Commands7)
    BY QueueGains DEF Commands7
  <2>2. to9 # <<>> => Tail(to9) \in Seq(Commands9)
    BY QueueLoses DEF Commands9
  <2> QED
    BY <1>3, <2>1, <2>2 DEF Echo9, Stop9
<1>4. CASE Sleep9
  <2>1. to9 # <<>> => Tail(to9) \in Seq(Commands9)
    BY QueueLoses DEF Commands9
  <2> QED
    BY <1>4, <2>1 DEF Sleep9
<1>5. CASE Wake9
  BY <1>5 DEF Wake9
<1>6. CASE CloseLid \/ OpenLid
  <2>1. moves' \in 0 .. MaxMoves /\ lid' \in {"open", "closed"}
    BY <1>6 DEF CloseLid, OpenLid, ConstantsAssumption
  <2> QED
    BY <1>6, <2>1 DEF CloseLid, OpenLid
<1>7. CASE UNCHANGED vars
  BY <1>7
<1> QED
  BY <1>1, <1>2, <1>3, <1>4, <1>5, <1>6, <1>7 DEF Next, Fifo9

(* The ARM7's main program: it tells the ARM9 to sleep as it starts to     *)
(* save, and is back in its loop only when the handler has run.            *)
LEMMA MainProgramKeepsInv ==
  ASSUME LidInv, TypeOK', Arm7
  PROVE  LidInv'
<1> USE DEF LidInv, TypeOK, SleepOnlyWhileClosing, InterruptEndsTheWait,
            SavedSoFar, Loop, Closing, lidVars, irqVars, saved, Main7
<1>1. CASE Receive7
  BY <1>1 DEF Receive7
<1>2. CASE TestLid
  <2>1. SleepUnderWay(Append(to9, "ARM7_REQ_SWI_TO_ARM9"))
          <=> SleepUnderWay(to9)
    BY QueueGains DEF Commands9
  <2> QED
    BY <1>2, <2>1 DEF TestLid
<1>3. CASE SaveInterrupts
  BY <1>3 DEF SaveInterrupts
<1>4. CASE SavePower
  BY <1>4 DEF SavePower
<1>5. CASE SetLed
  BY <1>5 DEF SetLed
<1>6. CASE MaskInterrupts
  BY <1>6 DEF MaskInterrupts
<1>7. CASE EnterIntrWait
  BY <1>7 DEF EnterIntrWait
<1>8. CASE LeaveIntrWait
  BY <1>8 DEF LeaveIntrWait
<1>9. CASE StoreLid
  BY <1>9 DEF StoreLid
<1> QED
  BY <1>1, <1>2, <1>3, <1>4, <1>5, <1>6, <1>7, <1>8, <1>9 DEF Arm7

(* The handler puts back what it finds saved, and clears the flag.         *)
LEMMA HandlerKeepsInv ==
  ASSUME LidInv, TypeOK', LidIrq
  PROVE  LidInv'
<1> USE DEF LidInv, TypeOK, SleepOnlyWhileClosing, InterruptEndsTheWait,
            SavedSoFar, Loop, Closing, lidVars, irqVars, saved
<1>1. CASE EnterLidIrq
  BY <1>1 DEF EnterLidIrq
<1>2. CASE LeaveLidIrq
  BY <1>2 DEF LeaveLidIrq
<1> QED
  BY <1>1, <1>2 DEF LidIrq

(* The ARM9, and the lid moved by somebody who waits for the sleep.        *)
LEMMA OthersKeepInv ==
  ASSUME Patient, LidInv, TypeOK',
         Fifo9 \/ Wake9 \/ Stop9 \/ CloseLid \/ OpenLid
  PROVE  LidInv'
<1> USE DEF LidInv, TypeOK, SleepOnlyWhileClosing, InterruptEndsTheWait,
            SavedSoFar, Loop, Closing, lidVars, irqVars, saved
<1>1. to9 # <<>> =>
        /\ SleepUnderWay(Tail(to9)) => SleepUnderWay(to9)
        /\ Head(to9) = "FIFO_SWI_SLEEPMODE" => SleepUnderWay(to9)
  BY QueueLoses DEF Commands9
<1>2. CASE Echo9
  BY <1>1, <1>2 DEF Echo9
<1>3. CASE Sleep9
  BY <1>1, <1>3 DEF Sleep9
<1>4. CASE Wake9
  BY <1>4 DEF Wake9
<1>5. CASE Stop9
  BY <1>5 DEF Stop9
<1>6. CASE CloseLid
  BY <1>6 DEF CloseLid
<1>7. CASE OpenLid
  BY <1>7, NothingUnderWay DEF OpenLid, MayOpen, FastAsleep
<1> QED
  BY <1>2, <1>3, <1>4, <1>5, <1>6, <1>7 DEF Fifo9

-----------------------------------------------------------------------------
(* The program starts with the lid open and nothing under way.             *)
LEMMA InitTyped == Init => TypeOK
<1> SUFFICES ASSUME Init PROVE TypeOK
  OBVIOUS
<1>1. moves \in 0 .. MaxMoves
  BY ConstantsAssumption DEF Init, ConstantsAssumption
<1>2. to9 \in Seq(Commands9) /\ to7 \in Seq(Commands7)
  BY NothingUnderWay DEF Init
<1> QED
  BY <1>1, <1>2 DEF Init, TypeOK, Loop

(* Every variable of the exchange stays in its range, whatever the player  *)
(* does.                                                                   *)
THEOREM LidTypeCorrect == Spec => []TypeOK
<1>1. TypeOK /\ [Next]_vars => TypeOK'
  BY ConstantsAssumption, StepKeepsTypes
<1> QED
  BY InitTyped, <1>1, PTL DEF Spec

(* A player who waits with opening the lid until both processors sleep:    *)
(* the sleep is asked for, saved, entered and ended in this order, through *)
(* any number of sleeps and however many Stops wait.                       *)
THEOREM LidInvariant ==
  ASSUME Patient PROVE Spec => []LidInv
<1>1. Init => LidInv
  <2> SUFFICES ASSUME Init PROVE LidInv
    OBVIOUS
  <2>1. TypeOK
    BY InitTyped
  <2>2. pc7 = "receive" /\ ~ SleepUnderWay(to9)
    BY NothingUnderWay DEF Init
  <2> QED
    BY <2>1, <2>2
       DEF Init, LidInv, SleepOnlyWhileClosing, InterruptEndsTheWait, SavedSoFar
<1>2. LidInv /\ [Next]_vars => LidInv'
  <2> SUFFICES ASSUME LidInv, [Next]_vars
               PROVE  LidInv'
    OBVIOUS
  <2>1. TypeOK'
    BY ConstantsAssumption, StepKeepsTypes DEF LidInv
  <2>2. CASE Arm7
    BY <2>1, <2>2, MainProgramKeepsInv
  <2>3. CASE LidIrq
    BY <2>1, <2>3, HandlerKeepsInv
  <2>4. CASE Fifo9 \/ Wake9 \/ Stop9 \/ CloseLid \/ OpenLid
    BY <2>1, <2>4, OthersKeepInv
  <2>5. CASE UNCHANGED vars
    BY <2>1, <2>5
       DEF LidInv, TypeOK, SleepOnlyWhileClosing, InterruptEndsTheWait,
           SavedSoFar, vars, lidVars, irqVars, saved
  <2> QED
    BY <2>2, <2>3, <2>4, <2>5 DEF Next
<1> QED
  BY <1>1, <1>2, PTL DEF Spec

(* For such a player the flag the ARM9 sleeps on is one the ARM7 is still  *)
(* going to clear.                                                         *)
THEOREM WakeupNeverLost ==
  ASSUME Patient PROVE Spec => []NoLostWakeup
<1>1. LidInv => NoLostWakeup
  BY DEF LidInv, SleepOnlyWhileClosing, NoLostWakeup
<1> QED
  BY <1>1, LidInvariant, PTL

(* And the interrupts and the power that a sleep takes are those it gives  *)
(* back.                                                                   *)
THEOREM SleepIsUndone ==
  ASSUME Patient PROVE Spec => []RestoresWhatWasSaved
<1>1. LidInv => RestoresWhatWasSaved
  BY DEF LidInv, InterruptEndsTheWait, SavedSoFar, RestoresWhatWasSaved, Loop
<1> QED
  BY <1>1, LidInvariant, PTL
=============================================================================
