---------------------------- MODULE MachineProofs ----------------------------
(***************************************************************************)
(* The DMA channels, the timers, the lines, the video registers and the    *)
(* interrupts, for memory of any size, any width of a timer's word, any    *)
(* frameskip, any number of transfers, lines, frames and menus, and        *)
(* anything a game writes, at any time.                                    *)
(***************************************************************************)
EXTENDS Dma, Interrupts, Lines, Lcd, TLAPS

-----------------------------------------------------------------------------
(* Timers.                                                                 *)

TimersTyped ==
  /\ timerReload \in [0 .. 3 -> Word] /\ timerValue \in [0 .. 3 -> TimerControls]
  /\ TIMER_DATA \in [0 .. 3 -> Word] /\ TIMER_CR \in [0 .. 3 -> TimerControls]
  /\ runsFrom \in [0 .. 3 -> Word] /\ gbaFrom \in [0 .. 3 -> Word]

(* The DS's reload is the game's doubled, but for a timer whose control    *)
(* was not written since its reload, or that has another's.                *)
ReloadsDoubled ==
  \A n \in 0 .. 3 \ Strays : TIMER_DATA[n] = Doubled(timerReload[n])

(* And so is what a period began from.                                     *)
PeriodsDoubled ==
  \A n \in 0 .. 3 \ drift : TIMER_CR[n] # "off" => runsFrom[n] = Doubled(gbaFrom[n])

(* What a counter that was read shows of what it had counted.              *)
CounterHalved ==
  LET shown == IF counterRead.up THEN counterRead.counted \div 2 ELSE counterRead.counted
  IN counterRead.value % Upper = (counterRead.from + shown) % Upper

TimersInv ==
  /\ TimersTyped /\ ReloadsDoubled /\ PeriodsDoubled /\ CounterHalved

(* A doubled reload, by the top bit that it loses.                         *)
LEMMA DoubledValue ==
  ASSUME NEW r \in Word
  PROVE  /\ Upper \in Nat \ {0} /\ TimerMod = 2 * Upper
         /\ Doubled(r) \in Word
         /\ Doubled(r) = IF r < Upper THEN 2 * r ELSE 2 * r - TimerMod
<1>1. Upper \in Nat \ {0} /\ TimerMod = 2 * Upper
  BY TimersAssumption DEF TimersAssumption, Upper
<1>2. r \in Nat /\ r < TimerMod /\ TimerMod \in Nat
  BY TimersAssumption DEF TimersAssumption, Word
<1>3. CASE r < Upper
  <2>1. 2 * r \in 0 .. TimerMod - 1
    BY <1>1, <1>2, <1>3
  <2>2. (2 * r) % TimerMod = 2 * r
    BY <2>1, <1>2
  <2> QED
    BY <1>1, <1>3, <2>1, <2>2 DEF Doubled, Word
<1>4. CASE ~(r < Upper)
  <2>1. 2 * r - TimerMod \in 0 .. TimerMod - 1
    BY <1>1, <1>2, <1>4
  <2>2. (2 * r) % TimerMod = 2 * r - TimerMod
    BY <2>1, <1>1, <1>2
  <2> QED
    BY <1>1, <1>4, <2>1, <2>2 DEF Doubled, Word
<1> QED
  BY <1>3, <1>4

(* Doubling undone: what a counter shows is the GBA's but for the top bit. *)
LEMMA CounterShown ==
  ASSUME NEW r \in Word, NEW e \in 0 .. TimerMod - 1 - Doubled(r)
  PROVE  ((Doubled(r) + e) \div 2) % Upper = (r + (e \div 2)) % Upper
<1>1. /\ Upper \in Nat \ {0} /\ TimerMod = 2 * Upper
      /\ Doubled(r) = IF r < Upper THEN 2 * r ELSE 2 * r - TimerMod
  BY DoubledValue
<1>2. r \in Nat /\ r < TimerMod /\ e \in Nat /\ Doubled(r) + e < 2 * Upper
  BY <1>1, TimersAssumption DEF TimersAssumption, Word
<1>3. CASE r < Upper
  BY <1>1, <1>2, <1>3
<1>4. CASE ~(r < Upper)
  <2> DEFINE x == (Doubled(r) + e) \div 2
  <2>1. x \in 0 .. Upper - 1 /\ r + (e \div 2) = x + Upper
    BY <1>1, <1>2, <1>4
  <2> HIDE DEF x
  <2>2. x % Upper = x /\ (x + Upper) % Upper = x
    BY <1>1, <2>1
  <2> QED
    BY <2>1, <2>2 DEF x
<1> QED
  BY <1>3, <1>4

(* Reloads that were set, and not crossed, are the same after another      *)
(* timer's is written.                                                     *)
LEMMA WriteReloadKeepsInv ==
  ASSUME TimersInv, NEW n \in 0 .. 3, NEW r \in Word, WriteReload(n, r)
  PROVE  TimersInv'
<1> USE DEF TimersInv, TimersTyped
<1>1. TimersTyped'
  BY DEF WriteReload
<1>2. ReloadsDoubled'
  <2> SUFFICES ASSUME NEW m \in 0 .. 3, m \notin Strays'
               PROVE  TIMER_DATA'[m] = Doubled(timerReload'[m])
    BY DEF ReloadsDoubled
  <2>1. m # n /\ (n = 1 => m # 0)
    BY DEF WriteReload, Strays
  <2>2. m \notin Strays
    BY <2>1 DEF WriteReload, Strays, Crossed
  <2>3. timerReload'[m] = timerReload[m] /\ TIMER_DATA'[m] = TIMER_DATA[m]
    BY <2>1 DEF WriteReload
  <2> QED
    BY <2>2, <2>3 DEF ReloadsDoubled
<1>3. PeriodsDoubled'
  BY DEF WriteReload, PeriodsDoubled
<1> QED
  BY <1>1, <1>2, <1>3 DEF WriteReload, CounterHalved

(* A control doubles the reload it finds, which is its own timer's unless  *)
(* it is crossed, and a period that it starts begins from it.              *)
LEMMA WriteControlKeepsInv ==
  ASSUME TimersInv, NEW n \in 0 .. 3, NEW control \in TimerControls, WriteTMCNT(n, control)
  PROVE  TimersInv'
<1> USE DEF TimersInv, TimersTyped
<1> DEFINE data == [TIMER_DATA EXCEPT ![n] = Doubled(ReloadOf(n))]
           begun == IF control # "off" /\ TIMER_CR[n] = "off" THEN {n} ELSE {}
           mixed == IF "off" \notin {control, TIMER_CR[n]} /\ control # TIMER_CR[n]
                      THEN {n} ELSE {}
<1>1. /\ TIMER_DATA' = data /\ TIMER_CR' = [TIMER_CR EXCEPT ![n] = control]
      /\ timerValue' = [timerValue EXCEPT ![n] = control]
      /\ Begin(begun, data) /\ unset' = unset \ {n}
      /\ drift' = (drift \ begun) \cup (begun \cap Crossed) \cup mixed
      /\ UNCHANGED <<timerReload, counterRead>>
  BY DEF WriteTMCNT
<1>2. ReloadOf(n) \in Word /\ Doubled(ReloadOf(n)) \in Word
  BY DoubledValue DEF ReloadOf
<1>3. data \in [0 .. 3 -> Word]
  BY <1>2
<1>4. TimersTyped'
  BY <1>1, <1>3 DEF Begin
<1>5. n \notin Crossed => ReloadOf(n) = timerReload[n]
  BY DEF Crossed, ReloadOf
<1>6. ReloadsDoubled'
  BY <1>1, <1>5 DEF ReloadsDoubled, Strays, Crossed
<1>7. PeriodsDoubled'
  <2> SUFFICES ASSUME NEW m \in 0 .. 3, m \notin drift', TIMER_CR'[m] # "off"
               PROVE  runsFrom'[m] = Doubled(gbaFrom'[m])
    BY DEF PeriodsDoubled
  <2>1. CASE m \in begun
    <3>1. m = n /\ n \notin Crossed
      BY <1>1, <2>1
    <3>2. runsFrom'[m] = data[n] /\ gbaFrom'[m] = timerReload[n]
      BY <1>1, <2>1, <3>1 DEF Begin
    <3> QED
      BY <1>5, <3>1, <3>2
  <2>2. CASE m \notin begun
    <3>1. TIMER_CR[m] # "off" /\ m \notin drift
      <4>1. m = n => control # "off"
        BY <1>1
      <4>2. m # n => TIMER_CR[m] # "off"
        BY <1>1
      <4> QED
        BY <1>1, <2>2, <4>1, <4>2
    <3>2. runsFrom'[m] = runsFrom[m] /\ gbaFrom'[m] = gbaFrom[m]
      BY <1>1, <2>2 DEF Begin
    <3> QED
      BY <3>1, <3>2 DEF PeriodsDoubled
  <2> QED
    BY <2>1, <2>2
<1> QED
  BY <1>1, <1>4, <1>6, <1>7 DEF CounterHalved

(* Periods that begin from what the DS's timers were last given.           *)
LEMMA PeriodsBeginDoubled ==
  ASSUME TimersInv, NEW ns \in SUBSET (0 .. 3), Begin(ns, TIMER_DATA),
         UNCHANGED <<timerReload, timerValue, TIMER_DATA, unset, counterRead>>,
         TIMER_CR' \in [0 .. 3 -> TimerControls],
         \A m \in ns : m \in Strays => m \in drift',
         \A m \in (0 .. 3) \ ns : m \in drift => m \in drift',
         \A m \in (0 .. 3) \ ns : TIMER_CR'[m] # "off" => TIMER_CR[m] # "off"
  PROVE  TimersInv'
<1> USE DEF TimersInv, TimersTyped
<1>1. TimersTyped'
  BY DEF Begin
<1>2. ReloadsDoubled'
  BY DEF ReloadsDoubled, Strays, Crossed
<1>3. PeriodsDoubled'
  <2> SUFFICES ASSUME NEW m \in 0 .. 3, m \notin drift', TIMER_CR'[m] # "off"
               PROVE  runsFrom'[m] = Doubled(gbaFrom'[m])
    BY DEF PeriodsDoubled
  <2>1. CASE m \in ns
    BY <2>1 DEF Begin, ReloadsDoubled
  <2>2. CASE m \notin ns
    BY <2>2 DEF Begin, PeriodsDoubled
  <2> QED
    BY <2>1, <2>2
<1>4. CounterHalved'
  BY DEF CounterHalved
<1> QED
  BY <1>1, <1>2, <1>3, <1>4

(* Overflows, the menu and the reading of counters.                        *)
LEMMA OthersKeepTimersInv ==
  ASSUME TimersInv,
         \/ \E n \in 0 .. 3 : Overflow(n) \/ CPUReadCounter(n)
         \/ StopTimers \/ RestartTimers
  PROVE  TimersInv'
<1> USE DEF TimersInv, TimersTyped
<1>1. ASSUME NEW n \in 0 .. 3, Overflow(n) PROVE TimersInv'
  BY <1>1, PeriodsBeginDoubled DEF Overflow
<1>2. ASSUME NEW n \in 0 .. 3, CPUReadCounter(n) PROVE TimersInv'
  <2>1. PICK e \in 0 .. TimerMod - 1 - runsFrom[n] :
          counterRead' = [value |-> Halved(runsFrom[n] + e), from |-> gbaFrom[n],
                          counted |-> IF TIMER_CR[n] = "up" THEN e ELSE e \div 2,
                          up |-> TIMER_CR[n] = "up"]
    BY <1>2 DEF CPUReadCounter
  <2>2. runsFrom[n] = Doubled(gbaFrom[n]) /\ gbaFrom[n] \in Word
    BY <1>2 DEF CPUReadCounter, PeriodsDoubled
  <2>3. CounterHalved'
    <3>1. ((Doubled(gbaFrom[n]) + e) \div 2) % Upper = (gbaFrom[n] + (e \div 2)) % Upper
      BY <2>1, <2>2, CounterShown
    <3>2. (IF counterRead'.up THEN counterRead'.counted \div 2 ELSE counterRead'.counted)
            = e \div 2
      BY <2>1
    <3>3. counterRead'.value = (Doubled(gbaFrom[n]) + e) \div 2
          /\ counterRead'.from = gbaFrom[n]
      BY <2>1, <2>2 DEF Halved
    <3> QED
      BY <3>1, <3>2, <3>3 DEF CounterHalved
  <2> QED
    BY <1>2, <2>3
       DEF CPUReadCounter, ReloadsDoubled, PeriodsDoubled, Strays, Crossed
<1>3. CASE StopTimers
  <2>1. TIMER_CR' = [n \in 0 .. 3 |-> "off"] /\ "off" \in TimerControls
    BY <1>3 DEF StopTimers, TimerControls
  <2>2. TimersTyped'
    BY <1>3, <2>1 DEF StopTimers
  <2>3. PeriodsDoubled'
    BY <2>1 DEF PeriodsDoubled
  <2> QED
    BY <1>3, <2>2, <2>3
       DEF StopTimers, ReloadsDoubled, CounterHalved, Strays, Crossed
<1>4. CASE RestartTimers
  <2> DEFINE begun == {n \in 0 .. 3 : Restarted[n] # "off" /\ TIMER_CR[n] = "off"}
  <2>1. /\ TIMER_CR' = Restarted /\ Begin(begun, TIMER_DATA)
        /\ drift' = (drift \ begun) \cup (begun \cap Strays)
        /\ UNCHANGED <<timerReload, timerValue, TIMER_DATA, unset, counterRead>>
    BY <1>4 DEF RestartTimers
  <2>2. Restarted \in [0 .. 3 -> TimerControls]
    BY DEF Restarted
  <2> QED
    BY <2>1, <2>2, PeriodsBeginDoubled
<1> QED
  BY <1>1, <1>2, <1>3, <1>4

(* Doubled reloads make periods as long as the GBA's.                      *)
LEMMA PeriodsAsLong == TimersInv => TimersAsOnTheGba
<1> SUFFICES ASSUME TimersInv, NEW n \in 0 .. 3, n \notin drift, TIMER_CR[n] # "off"
             PROVE  Length(n) + (IF gbaFrom[n] < Upper THEN TimerMod ELSE 0)
                      = (IF TIMER_CR[n] = "up" THEN 2 ELSE 1) * GbaLength(n)
  BY DEF TimersAsOnTheGba, TimersInv, CounterHalved
<1>1. gbaFrom[n] \in Word /\ runsFrom[n] = Doubled(gbaFrom[n])
  BY DEF TimersInv, TimersTyped, PeriodsDoubled
<1>2. TimerMod \in Nat /\ gbaFrom[n] \in Nat
  BY <1>1, TimersAssumption DEF TimersAssumption, Word
<1>3. Length(n) + (IF gbaFrom[n] < Upper THEN TimerMod ELSE 0)
        = 2 * (TimerMod - gbaFrom[n])
  BY <1>1, <1>2, DoubledValue DEF Length
<1>4. TimerMod - gbaFrom[n] \in Int
  BY <1>2
<1> QED
  BY <1>3, <1>4 DEF GbaLength

(* A timer whose reload was set before it was started runs as long as on   *)
(* the GBA, or twice as long if it counts overflows, and a counter that is *)
(* read is the GBA's but for its top bit: for any width of the words and   *)
(* any number of writes, and through the pause menu.                       *)
THEOREM TimersFollowTheGba == TimersSpec => []TimersAsOnTheGba
<1>1. TimersInit => TimersInv
  <2> SUFFICES ASSUME TimersInit PROVE TimersInv
    OBVIOUS
  <2>1. 0 \in Word /\ Doubled(0) = 0
    BY TimersAssumption DEF TimersAssumption, Word, Doubled
  <2>2. TimersTyped
    BY <2>1 DEF TimersInit, TimersTyped, TimerControls
  <2>3. ReloadsDoubled /\ PeriodsDoubled
    BY <2>1 DEF TimersInit, ReloadsDoubled, PeriodsDoubled
  <2>4. CounterHalved
    BY DEF TimersInit, CounterHalved
  <2> QED
    BY <2>2, <2>3, <2>4 DEF TimersInv
<1>2. TimersInv /\ [TimersNext]_timerVars => TimersInv'
  <2> SUFFICES ASSUME TimersInv, [TimersNext]_timerVars PROVE TimersInv'
    OBVIOUS
  <2>1. ASSUME NEW n \in UsedTimers, NEW r \in Word, WriteReload(n, r)
        PROVE  TimersInv'
    BY <2>1, TimersAssumption, WriteReloadKeepsInv DEF TimersAssumption
  <2>2. ASSUME NEW n \in UsedTimers, NEW control \in ControlsOf(n), WriteTMCNT(n, control)
        PROVE  TimersInv'
    BY <2>2, TimersAssumption, WriteControlKeepsInv DEF TimersAssumption, ControlsOf, TimerControls
  <2>3. ASSUME NEW n \in UsedTimers, Overflow(n) \/ CPUReadCounter(n)
        PROVE  TimersInv'
    BY <2>3, TimersAssumption, OthersKeepTimersInv DEF TimersAssumption
  <2>4. CASE StopTimers \/ RestartTimers
    BY <2>4, OthersKeepTimersInv
  <2>5. CASE UNCHANGED timerVars
    BY <2>5
       DEF timerVars, TimersInv, TimersTyped, ReloadsDoubled, PeriodsDoubled,
           CounterHalved, Strays, Crossed
  <2> QED
    BY <2>1, <2>2, <2>3, <2>4, <2>5 DEF TimersNext
<1> QED
  BY <1>1, <1>2, PeriodsAsLong, PTL DEF TimersSpec
-----------------------------------------------------------------------------
(* Lines.                                                                  *)

LinesInv ==
  /\ vcount \in DsLines
  /\ served = 0 .. GbaLine(vcount)
  /\ ~plainLines => (DISPSTAT.vblank <=> VCOUNT \in 160 .. 226)

(* A DS line begins the next line of the GBA's or none, from the first to  *)
(* the last, and those of the V-blank are the GBA's but for the last.      *)
LEMMA LineByLine ==
  /\ GbaLine(0) = 0 /\ GbaLine(262) = 227
  /\ \A l \in DsLines \ {0} : /\ GbaLine(l) \in Nat /\ GbaLine(l - 1) \in Nat
                               /\ GbaLine(l) - GbaLine(l - 1) \in {0, 1}
  /\ \A l \in DsLines : DsVblank(l) <=> GbaLine(l) \in 160 .. 226
<1>1. GbaLine(0) = 0 /\ GbaLine(262) = 227
  BY DEF GbaLine
<1>2. ASSUME NEW l \in DsLines, l # 0
      PROVE  /\ GbaLine(l) \in Nat /\ GbaLine(l - 1) \in Nat
             /\ GbaLine(l) - GbaLine(l - 1) \in {0, 1}
  <2>1. CASE l < 192
    BY <1>2, <2>1 DEF GbaLine, DsLines
  <2>2. CASE l = 192
    BY <2>2 DEF GbaLine
  <2>3. CASE l > 192
    <3>1. PICK k \in Nat : l = k + 193 /\ k <= 69
      BY <2>3 DEF DsLines
    <3>2. /\ GbaLine(l) = (((k + 1) * 246) \div 256) + 160
          /\ GbaLine(l - 1) = ((k * 246) \div 256) + 160
      BY <3>1 DEF GbaLine
    <3> QED
      BY <3>1, <3>2
  <2> QED
    BY <2>1, <2>2, <2>3 DEF DsLines
<1>3. ASSUME NEW l \in DsLines
      PROVE  DsVblank(l) <=> GbaLine(l) \in 160 .. 226
  <2>1. CASE l < 192
    BY <2>1 DEF GbaLine, DsVblank, DsLines
  <2>2. CASE l >= 192
    BY <2>2 DEF GbaLine, DsVblank, DsLines
  <2> QED
    BY <2>1, <2>2 DEF DsLines
<1> QED
  BY <1>1, <1>2, <1>3

(* Whatever a game reads and whenever, the DS's frame begins each line of  *)
(* the GBA's once and in order, and the V-blank flag goes with the line.   *)
THEOREM LinesFollowTheGba == LinesSpec => []EveryGbaLineOnce
<1>1. LinesInit => LinesInv
  BY LineByLine DEF LinesInit, LinesInv, DsLines
<1>2. LinesInv /\ [LinesNext]_lineVars => LinesInv'
  <2> SUFFICES ASSUME LinesInv, [LinesNext]_lineVars PROVE LinesInv'
    OBVIOUS
  <2> USE DEF LinesInv
  <2>1. CASE DsLine
    <3>1. vcount' \in DsLines /\ (vcount' # 0 => vcount' - 1 = vcount)
      <4>1. vcount' = IF vcount = 262 THEN 0 ELSE vcount + 1
        BY <2>1 DEF DsLine, DsLines
      <4> QED
        BY <4>1 DEF DsLines
    <3>2. CASE vcount' = 0
      <4>1. 0 \in DsLines
        BY DEF DsLines
      <4>2. VCountdoit[0] /\ VCountdstogba[0] = 0
        BY <4>1, LineByLine DEF VCountdoit, VCountdstogba
      <4>3. served' = {0}
        BY <2>1, <3>2, <4>2 DEF DsLine
      <4>4. {0} = 0 .. 0
        OBVIOUS
      <4> QED
        BY <2>1, <3>1, <3>2, <4>3, <4>4, LineByLine DEF DsLine
    <3>3. CASE vcount' # 0
      <4>1. /\ VCountdoit[vcount'] <=> GbaLine(vcount') # GbaLine(vcount)
            /\ VCountdstogba[vcount'] = GbaLine(vcount')
        BY <3>1, <3>3 DEF VCountdoit, VCountdstogba
      <4>2. /\ GbaLine(vcount) \in Nat
            /\ GbaLine(vcount') - GbaLine(vcount) \in {0, 1}
            /\ GbaLine(vcount') \in Nat
        BY <3>1, <3>3, LineByLine
      <4>3. served' = 0 .. GbaLine(vcount')
        BY <2>1, <3>3, <4>1, <4>2 DEF DsLine
      <4> QED
        BY <2>1, <3>1, <4>3 DEF DsLine
    <3> QED
      BY <3>2, <3>3
  <2>2. CASE CPUReadLine
    <3>1. CASE plainLines
      BY <2>2, <3>1 DEF CPUReadLine
    <3>2. CASE ~plainLines
      <4>1. /\ VCOUNT' = GbaLine(vcount) /\ DISPSTAT'.vblank = DsVblank(vcount)
            /\ UNCHANGED <<vcount, plainLines, served>>
        BY <2>2, <3>2 DEF CPUReadLine, updateVC, VCountdstogba
      <4> QED
        BY <4>1, LineByLine
    <3> QED
      BY <3>1, <3>2
  <2>3. CASE PlainHblank
    BY <2>3 DEF PlainHblank
  <2>4. CASE UNCHANGED lineVars
    BY <2>4 DEF lineVars
  <2> QED
    BY <2>1, <2>2, <2>3, <2>4 DEF LinesNext
<1>3. LinesInv => EveryGbaLineOnce
  BY LineByLine DEF LinesInv, EveryGbaLineOnce, VCountdstogba
<1> QED
  BY <1>1, <1>2, <1>3, PTL DEF LinesSpec
-----------------------------------------------------------------------------
(* Video registers.                                                        *)

LcdTyped ==
  /\ DISPCNT.mode \in 0 .. 7 /\ screen.mode \in 0 .. 7
  /\ lcd \in [LcdRegisters -> SUBSET (0 .. 15)]
  /\ dsLcd \in [LcdRegisters -> SUBSET (0 .. 15)]
  /\ fresh \subseteq LcdRegisters

(* The DS's DISPCNT is made of the game's.                                 *)
DisplayIsDerived ==
  /\ REG_DISPCNT.mode = DsMode(DISPCNT.mode)
  /\ REG_DISPCNT.bits = DsBits(DISPCNT.bits)

(* V-blanks are counted since the last copy, which was of one page of two. *)
CopiesCounted ==
  /\ framewtf \in 0 .. FrameSkip /\ behind = framewtf
  /\ screen.page = 0 \/ (screen.page = 40960 /\ screen.mode >= 4)

(* One register that was written since the last change between tiles and   *)
(* bitmap is where the DS looks for it.                                    *)
Shown(r) ==
  IF Bitmap(DISPCNT.mode)
  THEN \/ r \in TiledOnly
       \/ r = Control /\ lcd[r] \cap {0, 1, 6} \subseteq dsLcd[Home(r)]
       \/ dsLcd[Home(r)] = Meant(r)
  ELSE dsLcd[r] = lcd[r]

LcdInv ==
  LcdTyped /\ DisplayIsDerived /\ CopiesCounted /\ \A r \in fresh : Shown(r)

(* The registers of a bitmap's BG2 go to ones that only tiles use, each to *)
(* its own.                                                                *)
LEMMA RegisterKinds ==
  /\ (Moved \cup {Control}) \cap TiledOnly = {}
  /\ (Moved \cup {Control}) \cap Shifted = {}
  /\ TiledOnly \cap Shifted = {}
  /\ Control \notin Moved
  /\ \A r \in Moved \cup {Control} : Bg3Of(r) \in TiledOnly
  /\ \A q, r \in Moved \cup {Control} : q # r => Bg3Of(q) # Bg3Of(r)
<1>1. \A r \in Moved \cup {Control} : r = <<"BG2", r[2]>> /\ r[2] \in Affine \cup {"CNT"}
  BY DEF Moved, Control
<1>2. \A r \in Shifted : r[1] = ""
  BY DEF Shifted
<1>3. \A r \in TiledOnly : r[1] # "" /\ (r[1] = "BG2" => r[2] = "VOFS")
  <2> TAKE r \in TiledOnly
  <2>1. CASE r \in {"BG3"} \X Affine
    BY <2>1
  <2>2. CASE r = <<"BG3", "CNT">>
    BY <2>2
  <2>3. CASE r = <<"BG2", "VOFS">>
    BY <2>3
  <2>4. CASE r = <<"BG3", "HOFS">>
    BY <2>4
  <2> QED
    BY <2>1, <2>2, <2>3, <2>4 DEF TiledOnly
<1>4. Control[2] \notin Affine /\ "VOFS" \notin Affine \cup {"CNT"}
  BY DEF Control, Affine
<1>5. \A r \in Moved \cup {Control} : r[1] = "BG2" /\ r[2] # "VOFS"
  BY <1>1, <1>4
<1>6. Control \notin Moved
  BY <1>4 DEF Moved
<1>7. \A r \in Moved \cup {Control} : Bg3Of(r) \in TiledOnly
  <2> TAKE r \in Moved \cup {Control}
  <2>1. <<"BG3", r[2]>> \in {<<"BG3", "CNT">>} \cup ({"BG3"} \X Affine)
    BY <1>1
  <2> QED
    BY <2>1 DEF Bg3Of, TiledOnly
<1>8. \A q, r \in Moved \cup {Control} : q # r => Bg3Of(q) # Bg3Of(r)
  <2> TAKE q, r \in Moved \cup {Control}
  <2>1. Bg3Of(q)[2] = q[2] /\ Bg3Of(r)[2] = r[2]
    BY DEF Bg3Of
  <2> QED
    BY <2>1, <1>1
<1>9. (Moved \cup {Control}) \cap TiledOnly = {}
  BY <1>3, <1>5
<1>10. /\ (Moved \cup {Control}) \cap Shifted = {}
       /\ TiledOnly \cap Shifted = {}
  <2>1. "BG2" # ""
    OBVIOUS
  <2> QED
    BY <1>2, <1>3, <1>5, <2>1
<1> QED
  BY <1>6, <1>7, <1>8, <1>9, <1>10

(* Where a write to r goes while the game draws a bitmap.                  *)
Goes(r) == IF r \in Moved \cup {Control} THEN Bg3Of(r) ELSE r

(* Nothing else is looked for there, but what only tiles use.              *)
LEMMA NoOtherAtHome ==
  ASSUME NEW r \in LcdRegisters, NEW q \in LcdRegisters, q # r,
         Bitmap(DISPCNT.mode), q \notin TiledOnly, r \notin TiledOnly
  PROVE  Home(q) # Goes(r)
<1>1. Home(q) = IF q \in Moved \cup {Control} THEN Bg3Of(q) ELSE q
  BY DEF Home, Bg3Of
<1>2. CASE r \in Moved \cup {Control}
  BY <1>1, <1>2, RegisterKinds DEF Goes
<1>3. CASE r \notin Moved \cup {Control}
  BY <1>1, <1>3, RegisterKinds DEF Goes
<1> QED
  BY <1>2, <1>3

(* A write while the game draws a bitmap.                                  *)
LEMMA WriteToBitmap ==
  ASSUME LcdInv, NEW r \in LcdRegisters, NEW v \in SUBSET (0 .. 15),
         WriteLcd(r, v), Bitmap(DISPCNT.mode)
  PROVE  LcdInv'
<1> USE DEF LcdInv, LcdTyped
<1>1. /\ lcd' = [lcd EXCEPT ![r] = v] /\ fresh' = fresh \cup {r}
      /\ UNCHANGED <<DISPCNT, REG_DISPCNT, framewtf, screen, behind>>
  BY DEF WriteLcd
<1>2. Goes(r) \in LcdRegisters
  BY RegisterKinds DEF Goes, LcdRegisters
<1>3. /\ r \in TiledOnly => dsLcd' = dsLcd
      /\ r \in Moved => dsLcd' = [dsLcd EXCEPT ![Goes(r)] = v]
      /\ r \in Shifted => dsLcd' = [dsLcd EXCEPT ![Goes(r)] = Shift(v)]
      /\ r = Control =>
           dsLcd' = [dsLcd EXCEPT ![Goes(r)] = @ \cup (v \cap {0, 1, 6})]
      /\ r \notin TiledOnly \cup Moved \cup Shifted \cup {Control} =>
           dsLcd' = [dsLcd EXCEPT ![Goes(r)] = v]
  BY RegisterKinds DEF WriteLcd, Goes
<1>4. Shift(v) \in SUBSET (0 .. 15)
  BY DEF Shift
<1>5. LcdTyped'
  <2>1. dsLcd' \in [LcdRegisters -> SUBSET (0 .. 15)]
    BY <1>2, <1>3, <1>4
  <2> QED
    BY <1>1, <2>1
<1>6. \A x \in LcdRegisters : x # Goes(r) => dsLcd'[x] = dsLcd[x]
  BY <1>2, <1>3
<1>7. ASSUME NEW q \in fresh', q # r PROVE Shown(q)'
  <2>1. q \in fresh /\ Shown(q) /\ lcd'[q] = lcd[q]
    BY <1>1, <1>7
  <2>2. CASE q \in TiledOnly
    BY <1>1, <2>2 DEF Shown
  <2>3. CASE q \notin TiledOnly
    <3>1. Home(q) \in LcdRegisters
      BY <2>1, RegisterKinds DEF Home, Bg3Of, LcdRegisters
    <3>2. dsLcd'[Home(q)] = dsLcd[Home(q)]
      BY <1>3, <1>6, <1>7, <2>1, <2>3, <3>1, NoOtherAtHome
    <3>3. Home(q)' = Home(q) /\ Meant(q)' = Meant(q)
      BY <1>1, <2>1 DEF Home, Meant
    <3> QED
      BY <1>1, <2>1, <2>3, <3>2, <3>3 DEF Shown
  <2> QED
    BY <2>2, <2>3
<1>8. Shown(r)'
  <2>1. Home(r)' = Goes(r) /\ lcd'[r] = v
    BY <1>1 DEF Home, Goes, Bg3Of
  <2>2. Meant(r)' = IF r \in Shifted THEN Shift(v) ELSE v
    BY <1>1, <2>1 DEF Meant
  <2>3. CASE r \in TiledOnly
    BY <1>1, <2>3 DEF Shown
  <2>4. CASE r = Control
    BY <1>1, <1>2, <1>3, <2>1, <2>4 DEF Shown
  <2>5. CASE r \notin TiledOnly \cup {Control}
    BY <1>1, <1>2, <1>3, <2>1, <2>2, <2>5, RegisterKinds DEF Shown
  <2> QED
    BY <2>3, <2>4, <2>5
<1> QED
  BY <1>1, <1>5, <1>7, <1>8 DEF DisplayIsDerived, CopiesCounted

(* A write while the game draws tiles.                                     *)
LEMMA WriteToTiles ==
  ASSUME LcdInv, NEW r \in LcdRegisters, NEW v \in SUBSET (0 .. 15),
         WriteLcd(r, v), ~Bitmap(DISPCNT.mode)
  PROVE  LcdInv'
<1> USE DEF LcdInv, LcdTyped
<1>1. /\ lcd' = [lcd EXCEPT ![r] = v] /\ dsLcd' = [dsLcd EXCEPT ![r] = v]
      /\ fresh' = fresh \cup {r}
      /\ UNCHANGED <<DISPCNT, REG_DISPCNT, framewtf, screen, behind>>
  BY DEF WriteLcd
<1> QED
  BY <1>1 DEF Shown, DisplayIsDerived, CopiesCounted

(* A change of mode keeps what is shown, or forgets what was written.      *)
LEMMA WriteDisplay ==
  ASSUME LcdInv, NEW mode \in 0 .. 7, NEW bits, WriteDISPCNT(mode, bits)
  PROVE  LcdInv'
<1> USE DEF LcdInv, LcdTyped
<1>1. /\ DISPCNT' = [mode |-> mode, bits |-> bits]
      /\ REG_DISPCNT' = [mode |-> DsMode(mode), bits |-> DsBits(bits)]
      /\ fresh' = IF Bitmap(mode) = Bitmap(DISPCNT.mode) THEN fresh ELSE {}
      /\ UNCHANGED <<lcd, dsLcd, framewtf, screen, behind>>
  BY DEF WriteDISPCNT
<1>2. DISPCNT'.mode = mode /\ DISPCNT'.bits = bits
  BY <1>1
<1>3. CASE Bitmap(mode) = Bitmap(DISPCNT.mode)
  <2>1. ASSUME NEW r \in fresh PROVE Shown(r)'
    <3>1. /\ Shown(r)
          /\ Bitmap(DISPCNT'.mode) = Bitmap(DISPCNT.mode)
      BY <1>2, <1>3
    <3>2. Home(r)' = Home(r) /\ Meant(r)' = Meant(r)
      BY <1>1, <3>1 DEF Home, Meant
    <3> QED
      BY <1>1, <3>1, <3>2 DEF Shown
  <2> QED
    BY <1>1, <1>2, <1>3, <2>1 DEF DisplayIsDerived, CopiesCounted
<1>4. CASE Bitmap(mode) # Bitmap(DISPCNT.mode)
  BY <1>1, <1>2, <1>4 DEF DisplayIsDerived, CopiesCounted
<1> QED
  BY <1>3, <1>4

(* A page other than the first is one of a mode that has two.              *)
LEMMA OneOfTwoPages == Page = 0 \/ (Page = 40960 /\ DISPCNT.mode >= 4)
BY SMT DEF Page

(* A copy of the screen, at its V-blank or when the ARM7 asks for it.      *)
LEMMA CopyOfScreen ==
  ASSUME LcdInv, Vblank \/ frameasyncsync
  PROVE  LcdInv'
<1> USE LcdAssumption DEF LcdInv, LcdTyped
<1>1. UNCHANGED <<DISPCNT, REG_DISPCNT, lcd, dsLcd, fresh>>
  BY DEF Vblank, frameasyncsync
<1>2. /\ screen'.mode \in 0 .. 7 /\ framewtf' \in 0 .. FrameSkip
      /\ behind' = framewtf'
      /\ screen'.page = 0 \/ (screen'.page = 40960 /\ screen'.mode >= 4)
  <2>1. CASE CopyScreen
    <3>1. /\ screen'.mode = DISPCNT.mode /\ screen'.page = Page
          /\ framewtf' = 0 /\ behind' = 0
      BY <2>1 DEF CopyScreen
    <3>2. 0 \in 0 .. FrameSkip
      BY DEF LcdAssumption
    <3>3. Page = 0 \/ (Page = 40960 /\ DISPCNT.mode >= 4)
      BY OneOfTwoPages
    <3>4. DISPCNT.mode \in 0 .. 7
      OBVIOUS
    <3>5. screen'.page = 0 \/ (screen'.page = 40960 /\ screen'.mode >= 4)
      BY <3>1, <3>3
    <3> QED
      BY <3>1, <3>2, <3>4, <3>5
  <2>2. CASE /\ framewtf' = framewtf + 1 /\ behind' = behind + 1
             /\ UNCHANGED screen /\ ~Due
    BY <2>2 DEF CopiesCounted, Due, LcdAssumption
  <2> QED
    BY <2>1, <2>2 DEF Vblank, VblankCopies, frameasyncsync
<1>3. \A r \in fresh' : Shown(r)'
  BY <1>1 DEF Shown, Home, Meant
<1> QED
  BY <1>1, <1>2, <1>3 DEF DisplayIsDerived, CopiesCounted

(* The parts hold together for anything a game writes at any time and any  *)
(* frameskip.                                                              *)
LEMMA LcdInvariant == LcdSpec => []LcdInv
<1>1. LcdInit => LcdInv
  <2> SUFFICES ASSUME LcdInit PROVE LcdInv
    OBVIOUS
  <2>1. /\ DISPCNT.mode = 0 /\ screen.mode = 0 /\ screen.page = 0
        /\ REG_DISPCNT.mode = 0 /\ DISPCNT.bits = {7} /\ REG_DISPCNT.bits = {7}
    BY DEF LcdInit
  <2>2. DsMode(0) = 0 /\ DsBits({7}) = {7}
    BY DEF DsMode, DsBits
  <2>3. framewtf \in 0 .. FrameSkip
    BY LcdAssumption DEF LcdInit, LcdAssumption
  <2>4. LcdTyped
    BY <2>1 DEF LcdInit, LcdTyped
  <2> QED
    <3>1. fresh = {} /\ behind = framewtf
      BY DEF LcdInit
    <3>2. DisplayIsDerived
      BY <2>1, <2>2 DEF DisplayIsDerived
    <3>3. CopiesCounted
      BY <2>1, <2>3, <3>1, SMT DEF CopiesCounted
    <3> QED
      BY <2>4, <3>1, <3>2, <3>3 DEF LcdInv
<1>2. LcdInv /\ [LcdNext]_lcdVars => LcdInv'
  <2> SUFFICES ASSUME LcdInv, [LcdNext]_lcdVars PROVE LcdInv'
    OBVIOUS
  <2>1. ASSUME NEW w \in LcdWrites, WriteLcd(w[1], w[2]) PROVE LcdInv'
    <3>1. w[1] \in LcdRegisters /\ w[2] \in SUBSET (0 .. 15)
      BY LcdAssumption DEF LcdAssumption
    <3> QED
      BY <2>1, <3>1, WriteToBitmap, WriteToTiles
  <2>2. ASSUME NEW d \in Displays, WriteDISPCNT(d[1], d[2]) PROVE LcdInv'
    <3>1. d[1] \in 0 .. 7
      BY LcdAssumption DEF LcdAssumption
    <3> QED
      BY <2>2, <3>1, WriteDisplay
  <2>3. CASE Vblank \/ frameasyncsync
    BY <2>3, CopyOfScreen
  <2>4. CASE UNCHANGED lcdVars
    BY <2>4
       DEF lcdVars, LcdInv, LcdTyped, DisplayIsDerived, CopiesCounted, Shown,
           Home, Meant
  <2> QED
    BY <2>1, <2>2, <2>3, <2>4 DEF LcdNext
<1> QED
  BY <1>1, <1>2, PTL DEF LcdSpec

(* Whatever mode the game sets, each of its layers is of its kind on the   *)
(* DS, and the objects and the display are on as it asks.                  *)
THEOREM LayersFollow == LcdSpec => []LayersAreOfTheirKind
<1>1. LcdInv => LayersAreOfTheirKind
  <2> SUFFICES ASSUME LcdInv, DISPCNT.mode <= 5
               PROVE  /\ \A l \in {"bg0", "bg1", "bg2", "bg3"} :
                           GbaLayers(DISPCNT.mode)[l]
                             \in {"none", DsLayers(REG_DISPCNT.mode)[l]}
                      /\ 16 \in REG_DISPCNT.bits <=> 7 \notin DISPCNT.bits
                      /\ REG_DISPCNT.bits \cap (8 .. 15)
                           = DISPCNT.bits \cap (8 .. 15)
    BY DEF LayersAreOfTheirKind
  <2>1. DISPCNT.mode \in 0 .. 5 /\ REG_DISPCNT.mode = DsMode(DISPCNT.mode)
    BY DEF LcdInv, LcdTyped, DisplayIsDerived
  <2>2. REG_DISPCNT.bits = DsBits(DISPCNT.bits)
    BY DEF LcdInv, DisplayIsDerived
  <2>3. \A l \in {"bg0", "bg1", "bg2", "bg3"} :
          GbaLayers(DISPCNT.mode)[l] \in {"none", DsLayers(DsMode(DISPCNT.mode))[l]}
    BY <2>1 DEF GbaLayers, DsLayers, DsMode
  <2>4. 16 \in DsBits(DISPCNT.bits) <=> 7 \notin DISPCNT.bits
    BY DEF DsBits
  <2>5. DsBits(DISPCNT.bits) \cap (8 .. 15) = DISPCNT.bits \cap (8 .. 15)
    BY DEF DsBits
  <2> QED
    BY <2>1, <2>2, <2>3, <2>4, <2>5
<1> QED
  BY <1>1, LcdInvariant, PTL

(* What the game wrote since it last went from tiles to a bitmap or back   *)
(* is where the DS looks for it, and the screen is never more than         *)
(* frameskip V-blanks behind and stays in its part of the VRAM.            *)
THEOREM RegistersAreShown == LcdSpec => []FreshRegistersAreShown
<1>1. LcdInv => ScreenIsFollowed
  <2> SUFFICES ASSUME LcdInv PROVE ScreenIsFollowed
    OBVIOUS
  <2>1. behind <= FrameSkip
    BY LcdAssumption DEF LcdInv, CopiesCounted, LcdAssumption
  <2>2. /\ screen.mode \in 0 .. 7
        /\ screen.page = 0 \/ (screen.page = 40960 /\ screen.mode >= 4)
    BY DEF LcdInv, LcdTyped, CopiesCounted
  <2>3. CASE ~Bitmap(screen.mode)
    BY <2>1, <2>3 DEF ScreenIsFollowed, ObjectTiles
  <2>4. CASE screen.mode = 3
    BY <2>1, <2>2, <2>4 DEF ScreenIsFollowed, ObjectTiles, Geometry, Bitmap
  <2>5. CASE screen.mode = 4
    BY <2>1, <2>2, <2>5 DEF ScreenIsFollowed, ObjectTiles, Geometry, Bitmap
  <2>6. CASE screen.mode >= 5
    BY <2>1, <2>2, <2>6 DEF ScreenIsFollowed, ObjectTiles, Geometry, Bitmap
  <2> QED
    BY <2>2, <2>3, <2>4, <2>5, <2>6 DEF Bitmap
<1>2. LcdInv => FreshRegistersAreShown
  BY <1>1 DEF LcdInv, Shown, FreshRegistersAreShown
<1> QED
  BY <1>2, LcdInvariant, PTL
-----------------------------------------------------------------------------
(* Interrupts: what the game enabled waits for it, a line's H-blank DMA    *)
(* runs once, and the ARM7 is always heard.                                *)

(* Where no line was mistaken and no byte written over another's bits, the *)
(* GBA's pending interrupts are all pending here, whether enabled or not,  *)
(* and an H-blank among them is of the line that is still on.              *)
PendingAsOnTheGba ==
  ~disableHBLANKIRQ /\ mishaps \cap {"byte", "late"} = {} =>
    gbaIF \subseteq REG_IF /\ ("hblank" \in gbaIF => dueLine)

(* An H-blank of the GBA's whose DMA has run is pending only on its way to *)
(* the game's handler, or in it.                                           *)
RunWhileAnswered ==
  ~disableHBLANKIRQ /\ mishaps \cap {"left", "late"} = {} =>
    /\ hblankDma # "twice"
    /\ "hblank" \in REG_IF /\ dueLine /\ hblankDma # "owed" =>
         "hblank" \in IE /\ pc9 \in {"after", "handler", "answer", "return"}

(* The break lasts at least as long as the V-blanks that waited.           *)
BreakOutlastsOldFrames == oldFrames <= ignorenextY

IrqInv ==
  /\ IrqTypeOK
  /\ PendingAsOnTheGba
  /\ RunWhileAnswered
  /\ NoMessageForgotten
  /\ EmulatorKeepsItsInterrupts
  /\ BreakOutlastsOldFrames

-----------------------------------------------------------------------------
(* A mishap is remembered with those before it, and always where lines are *)
(* told apart.                                                             *)
LEMMA MishapIsRemembered ==
  ASSUME NEW m \in Mishaps, Mishap(m)
  PROVE  /\ mishaps \subseteq Mishaps => mishaps' \subseteq Mishaps
         /\ mishaps \subseteq mishaps'
         /\ ~disableHBLANKIRQ => m \in mishaps'
BY DEF Mishap

(* What can be a mishap is one of the four.                                *)
LEMMA MishapNames == {"byte", "late", "left", "paused"} \subseteq Mishaps
BY DEF Mishaps

(* The masks a game uses are sets of its interrupts.                       *)
LEMMA MasksAreSets ==
  /\ \A v \in GameIE \cup {{}} : v \subseteq Irq
  /\ "fifo" \notin Irq
BY InterruptsAssumption DEF InterruptsAssumption, Irq

-----------------------------------------------------------------------------
(* The types, by what a step writes.                                       *)
LEMMA StepKeepsIrqTypes ==
  ASSUME IrqTypeOK, [IrqNext]_<<irqVars, timerVars>>
  PROVE  IrqTypeOK'
<1> USE DEF IrqTypeOK, irqVars, irqRegisters, menuVars, irqHistory
<1>1. CASE NextLine
  <2>1. mishaps' \subseteq Mishaps
    BY <1>1, MishapIsRemembered, MishapNames DEF NextLine
  <2> QED
    BY <1>1, <2>1 DEF NextLine
<1>2. CASE Hblank
  <2>1. REG_IF' \subseteq Irq \cup {"fifo"} /\ gbaIF' \subseteq Irq
    BY <1>2 DEF Hblank, Irq
  <2> QED
    BY <1>2, <2>1 DEF Hblank
<1>3. CASE Frame
  <2>1. frames' \in 0 .. MaxFrames
    BY <1>3, InterruptsAssumption DEF Frame, InterruptsAssumption
  <2>2. REG_IF' \subseteq Irq \cup {"fifo"}
    BY <1>3 DEF Frame
  <2> QED
    BY <1>3, <2>1, <2>2 DEF Frame
<1>4. CASE PressOrRelease
  BY <1>4 DEF PressOrRelease
<1>5. ASSUME NEW i \in (UNION GameIE) \ {"hblank"}, Raise(i)
      PROVE  IrqTypeOK'
  BY <1>5, MasksAreSets DEF Raise
<1>6. ASSUME NEW v \in GameIE, GameWritesIE(v)
      PROVE  IrqTypeOK'
  <2>1. v \subseteq Irq /\ "hblank" \in Irq
    BY MasksAreSets DEF Irq
  <2>2. REG_IE' \subseteq Irq \cup {"fifo"}
    BY <1>6, <2>1 DEF GameWritesIE, WriteIE
  <2>3. mishaps' \subseteq Mishaps
    BY <1>6 DEF GameWritesIE, WriteIE
  <2> QED
    BY <1>6, <2>2, <2>3 DEF GameWritesIE, GameSteps, WriteIE
<1>7. CASE GameWritesIME
  BY <1>7 DEF GameWritesIME, GameSteps
<1>8. CASE TakeHblank
  BY <1>8 DEF TakeHblank, HblankHandler, AcknowledgeHblank
<1>9. CASE TakeFifo
  BY <1>9 DEF TakeFifo, AcknowledgeFifo
<1>10. CASE TakeOther
  BY <1>10 DEF TakeOther
<1>11. CASE VblankHandler
  BY <1>11, InterruptsAssumption DEF VblankHandler, InterruptsAssumption, Items,
     Continue
<1>12. CASE FifoEmpty
  BY <1>12 DEF FifoEmpty, Drained
<1>13. CASE Afterwards
  BY <1>13 DEF Afterwards
<1>14. CASE HandlerReads
  BY <1>14 DEF HandlerReads, ReadIF
<1>15. CASE HandlerAnswers
  <2>1. mishaps' \subseteq Mishaps
    BY <1>15, MishapIsRemembered, MishapNames DEF HandlerAnswers
  <2>2. REG_IF' \subseteq REG_IF /\ gbaIF' \subseteq gbaIF
    BY <1>15 DEF HandlerAnswers, WriteIF
  <2> QED
    BY <1>15, <2>1, <2>2 DEF HandlerAnswers
<1>16. CASE HandlerReturns
  <2>1. mishaps' \subseteq Mishaps
    BY <1>16, MishapIsRemembered, MishapNames DEF HandlerReturns
  <2> QED
    BY <1>16, <2>1 DEF HandlerReturns
<1>17. CASE MenuMoves
  BY <1>17, InterruptsAssumption DEF MenuMoves, InterruptsAssumption, Items,
     Continue
<1>18. CASE MenuContinues
  BY <1>18, MasksAreSets, MishapNames, InterruptsAssumption DEF MenuContinues,
     Leaves, Break, InterruptsAssumption, Items, Continue
<1>19. CASE UNCHANGED <<irqVars, timerVars>>
  BY <1>19
<1> QED
  BY <1>1, <1>2, <1>3, <1>4, <1>5, <1>6, <1>7, <1>8, <1>9, <1>10, <1>11, <1>12,
     <1>13, <1>14, <1>15, <1>16, <1>17, <1>18, <1>19 DEF IrqNext

-----------------------------------------------------------------------------
(* What waits for the game: lines begin and end, interrupts come, and only *)
(* an answer of the game's takes one away.                                 *)
LEMMA StepKeepsPending ==
  ASSUME IrqTypeOK, PendingAsOnTheGba, [IrqNext]_<<irqVars, timerVars>>
  PROVE  PendingAsOnTheGba'
<1> USE DEF PendingAsOnTheGba, irqVars, irqRegisters, menuVars, irqHistory
<1>1. CASE NextLine
  BY <1>1, MishapIsRemembered, MishapNames DEF NextLine
<1>2. CASE Hblank
  BY <1>2 DEF Hblank
<1>3. ASSUME NEW i \in (UNION GameIE) \ {"hblank"}, Raise(i)
      PROVE  PendingAsOnTheGba'
  <2>1. gbaIF \subseteq REG_IF => gbaIF' \subseteq REG_IF'
    BY <1>3 DEF Raise
  <2>2. "hblank" \in gbaIF' <=> "hblank" \in gbaIF
    BY <1>3 DEF Raise
  <2> QED
    BY <1>3, <2>1, <2>2 DEF Raise
<1>4. CASE TakeHblank
  BY <1>4 DEF TakeHblank, HblankHandler, AcknowledgeHblank, RunHblankDma
<1>5. CASE TakeFifo
  BY <1>5, MasksAreSets DEF TakeFifo, AcknowledgeFifo, IrqTypeOK
<1>6. ASSUME NEW v \in GameIE, GameWritesIE(v)
      PROVE  PendingAsOnTheGba'
  BY <1>6 DEF GameWritesIE, GameSteps, WriteIE
<1>7. CASE HandlerAnswers
  BY <1>7, MishapIsRemembered, MishapNames DEF HandlerAnswers, WriteIF
<1>8. CASE HandlerReturns
  BY <1>8, MishapIsRemembered, MishapNames DEF HandlerReturns
<1>9. CASE MenuContinues
  BY <1>9 DEF MenuContinues
<1>10. CASE Frame \/ PressOrRelease \/ GameWritesIME \/ TakeOther \/
             VblankHandler \/ FifoEmpty \/ Afterwards \/ HandlerReads \/ MenuMoves
  BY <1>10 DEF Frame, PressOrRelease, GameWritesIME, TakeOther, VblankHandler,
     FifoEmpty, Afterwards, HandlerReads, MenuMoves, GameSteps, Drained, ReadIF
<1>11. CASE UNCHANGED <<irqVars, timerVars>>
  BY <1>11
<1> QED
  BY <1>1, <1>2, <1>3, <1>4, <1>5, <1>6, <1>7, <1>8, <1>9, <1>10, <1>11 DEF IrqNext

(* A line's DMA: the handler runs it when it takes the H-blank, and the    *)
(* interrupt that it leaves to the game is gone when the game is back.     *)
LEMMA StepKeepsDma ==
  ASSUME IrqTypeOK, RunWhileAnswered, [IrqNext]_<<irqVars, timerVars>>
  PROVE  RunWhileAnswered'
<1> USE DEF RunWhileAnswered, irqVars, irqRegisters, menuVars, irqHistory
<1>1. CASE NextLine
  BY <1>1, MishapIsRemembered, MishapNames DEF NextLine
<1>2. CASE Hblank
  BY <1>2 DEF Hblank
<1>3. ASSUME NEW i \in (UNION GameIE) \ {"hblank"}, Raise(i)
      PROVE  RunWhileAnswered'
  <2>1. "hblank" \in REG_IF' <=> "hblank" \in REG_IF
    BY <1>3 DEF Raise
  <2> QED
    BY <1>3, <2>1 DEF Raise
<1>4. CASE TakeHblank
  <2> SUFFICES ASSUME ~disableHBLANKIRQ,
                      mishaps \cap {"left", "late"} = {}
               PROVE  /\ hblankDma' # "twice"
                      /\ "hblank" \in REG_IF' /\ dueLine' /\ hblankDma' # "owed" =>
                           "hblank" \in IE' /\ pc9' = "after"
    BY <1>4 DEF TakeHblank
  <2>1. "hblank" \in REG_IF /\ pc9 = "game" /\ pc9' = "after" /\ hblankDma # "twice"
    BY <1>4 DEF TakeHblank, Taken, Pending
  <2>2. CASE dueLine
    <3>1. hblankDma = "owed" /\ hblankDma' = "done"
      BY <1>4, <2>1, <2>2 DEF TakeHblank, HblankHandler, RunHblankDma
    <3>2. CASE "hblank" \in IE
      BY <1>4, <2>1, <3>1, <3>2 DEF TakeHblank
    <3>3. CASE "hblank" \notin IE
      BY <1>4, <2>1, <2>2, <3>1, <3>3
         DEF TakeHblank, HblankHandler, AcknowledgeHblank
    <3> QED
      BY <3>2, <3>3
  <2>3. CASE ~dueLine
    BY <1>4, <2>1, <2>3 DEF TakeHblank, HblankHandler
  <2> QED
    BY <2>2, <2>3
<1>5. CASE TakeFifo
  BY <1>5, MasksAreSets DEF TakeFifo, AcknowledgeFifo, Taken
<1>6. ASSUME NEW v \in GameIE, GameWritesIE(v)
      PROVE  RunWhileAnswered'
  BY <1>6 DEF GameWritesIE, GameSteps, WriteIE
<1>7. CASE Afterwards
  BY <1>7 DEF Afterwards
<1>8. CASE HandlerAnswers
  BY <1>8, MishapIsRemembered, MishapNames DEF HandlerAnswers, WriteIF
<1>9. CASE HandlerReturns
  BY <1>9, MishapIsRemembered, MishapNames DEF HandlerReturns
<1>10. CASE VblankHandler
  BY <1>10 DEF VblankHandler
<1>11. CASE MenuContinues
  BY <1>11 DEF MenuContinues
<1>12. CASE Frame \/ PressOrRelease \/ GameWritesIME
  BY <1>12 DEF Frame, PressOrRelease, GameWritesIME, GameSteps
<1>13. CASE TakeOther \/ FifoEmpty \/ HandlerReads \/ MenuMoves
  BY <1>13 DEF TakeOther, FifoEmpty, HandlerReads, MenuMoves, Drained, ReadIF, Taken
<1>14. CASE UNCHANGED <<irqVars, timerVars>>
  BY <1>14
<1> QED
  BY <1>1, <1>2, <1>3, <1>4, <1>5, <1>6, <1>7, <1>8, <1>9, <1>10, <1>11, <1>12,
     <1>13, <1>14 DEF IrqNext

(* A message waits with its interrupt, or is being read.                   *)
LEMMA StepKeepsMessages ==
  ASSUME IrqTypeOK, NoMessageForgotten, [IrqNext]_<<irqVars, timerVars>>
  PROVE  NoMessageForgotten'
<1> USE DEF NoMessageForgotten, irqVars, irqRegisters, menuVars, irqHistory
<1>1. CASE Frame
  BY <1>1 DEF Frame, IrqTypeOK
<1>2. CASE TakeHblank
  BY <1>2 DEF TakeHblank, HblankHandler, AcknowledgeHblank, RunHblankDma, Taken
<1>3. CASE TakeFifo
  BY <1>3 DEF TakeFifo, AcknowledgeFifo
<1>4. CASE VblankHandler
  BY <1>4 DEF VblankHandler
<1>5. CASE FifoEmpty
  BY <1>5 DEF FifoEmpty, Drained
<1>6. CASE HandlerAnswers
  BY <1>6, MasksAreSets DEF HandlerAnswers, WriteIF, IrqTypeOK, Merged
<1>7. CASE MenuContinues
  BY <1>7 DEF MenuContinues, Leaves
<1>8. ASSUME NEW i \in (UNION GameIE) \ {"hblank"}, Raise(i)
      PROVE  NoMessageForgotten'
  BY <1>8 DEF Raise
<1>9. ASSUME NEW v \in GameIE, GameWritesIE(v)
      PROVE  NoMessageForgotten'
  BY <1>9 DEF GameWritesIE, GameSteps, WriteIE
<1>10. CASE NextLine \/ Hblank \/ PressOrRelease \/ GameWritesIME
  BY <1>10 DEF NextLine, Hblank, PressOrRelease, GameWritesIME, GameSteps
<1>11. CASE TakeOther \/ Afterwards \/ HandlerReads \/ HandlerReturns \/
             MenuMoves
  BY <1>11 DEF TakeOther, Afterwards, HandlerReads, HandlerReturns, MenuMoves,
     ReadIF, Taken
<1>12. CASE UNCHANGED <<irqVars, timerVars>>
  BY <1>12
<1> QED
  BY <1>1, <1>2, <1>3, <1>4, <1>5, <1>6, <1>7, <1>8, <1>9, <1>10, <1>11, <1>12
     DEF IrqNext

(* The emulator's own interrupts stay enabled beside the game's.           *)
LEMMA StepKeepsEnabled ==
  ASSUME IrqTypeOK, EmulatorKeepsItsInterrupts, [IrqNext]_<<irqVars, timerVars>>
  PROVE  EmulatorKeepsItsInterrupts'
<1> USE DEF EmulatorKeepsItsInterrupts, irqVars, irqRegisters, menuVars, irqHistory
<1>1. CASE NextLine
  BY <1>1, MishapIsRemembered, MishapNames DEF NextLine
<1>2. CASE Hblank
  BY <1>2 DEF Hblank
<1>3. ASSUME NEW i \in (UNION GameIE) \ {"hblank"}, Raise(i)
      PROVE  EmulatorKeepsItsInterrupts'
  BY <1>3 DEF Raise
<1>4. ASSUME NEW v \in GameIE, GameWritesIE(v)
      PROVE  EmulatorKeepsItsInterrupts'
  BY <1>4 DEF GameWritesIE, GameSteps, WriteIE
<1>5. CASE HandlerAnswers
  BY <1>5, MishapIsRemembered, MishapNames DEF HandlerAnswers, WriteIF
<1>6. CASE HandlerReturns
  BY <1>6, MishapIsRemembered, MishapNames DEF HandlerReturns
<1>7. CASE VblankHandler
  BY <1>7 DEF VblankHandler
<1>8. CASE MenuContinues
  BY <1>8 DEF MenuContinues, Leaves
<1>9. CASE Frame \/ PressOrRelease \/ GameWritesIME
  BY <1>9 DEF Frame, PressOrRelease, GameWritesIME, GameSteps
<1>10. CASE TakeHblank \/ TakeFifo \/ TakeOther
  BY <1>10 DEF TakeHblank, TakeFifo, TakeOther, HblankHandler,
     AcknowledgeHblank, RunHblankDma, AcknowledgeFifo, Taken, Taken, Taken
<1>11. CASE FifoEmpty \/ Afterwards \/ HandlerReads \/ MenuMoves
  BY <1>11 DEF FifoEmpty, Afterwards, HandlerReads, MenuMoves, Drained, ReadIF
<1>12. CASE UNCHANGED <<irqVars, timerVars>>
  BY <1>12
<1> QED
  BY <1>1, <1>2, <1>3, <1>4, <1>5, <1>6, <1>7, <1>8, <1>9, <1>10, <1>11, <1>12
     DEF IrqNext

(* The break and the V-blanks that waited are counted down together.       *)
LEMMA StepKeepsBreak ==
  ASSUME IrqTypeOK, BreakOutlastsOldFrames, [IrqNext]_<<irqVars, timerVars>>
  PROVE  BreakOutlastsOldFrames'
<1> USE DEF BreakOutlastsOldFrames, irqVars, irqRegisters, menuVars, irqHistory
<1>1. CASE VblankHandler
  BY <1>1, InterruptsAssumption DEF VblankHandler, IrqTypeOK, InterruptsAssumption
<1>2. CASE MenuContinues
  BY <1>2, InterruptsAssumption DEF MenuContinues, Leaves, Break, IrqTypeOK,
     InterruptsAssumption
<1>3. ASSUME NEW i \in (UNION GameIE) \ {"hblank"}, Raise(i)
      PROVE  BreakOutlastsOldFrames'
  BY <1>3 DEF Raise
<1>4. ASSUME NEW v \in GameIE, GameWritesIE(v)
      PROVE  BreakOutlastsOldFrames'
  BY <1>4 DEF GameWritesIE, GameSteps, WriteIE
<1>5. CASE NextLine \/ Hblank \/ Frame \/ PressOrRelease \/ GameWritesIME
  BY <1>5 DEF NextLine, Hblank, Frame, PressOrRelease, GameWritesIME, GameSteps
<1>6. CASE TakeHblank \/ TakeFifo \/ TakeOther \/ FifoEmpty
  BY <1>6 DEF TakeHblank, TakeFifo, TakeOther, FifoEmpty, HblankHandler,
     AcknowledgeHblank, RunHblankDma, AcknowledgeFifo, Drained
<1>7. CASE Afterwards \/ HandlerReads \/ HandlerAnswers \/ HandlerReturns \/
             MenuMoves
  BY <1>7 DEF Afterwards, HandlerReads, HandlerAnswers, HandlerReturns,
     MenuMoves, ReadIF, WriteIF
<1>8. CASE UNCHANGED <<irqVars, timerVars>>
  BY <1>8
<1> QED
  BY <1>1, <1>2, <1>3, <1>4, <1>5, <1>6, <1>7, <1>8 DEF IrqNext

-----------------------------------------------------------------------------
(* main leaves nothing pending and nothing behind.                         *)
LEMMA IrqStarts == IrqInit => IrqInv
<1> SUFFICES ASSUME IrqInit PROVE IrqInv
  OBVIOUS
<1>1. frames \in 0 .. MaxFrames /\ oldFrames \in 0 .. MaxFrames
  BY InterruptsAssumption DEF IrqInit, InterruptsAssumption
<1>2. ignorenextY \in 0 .. BreakTime /\ oldFrames <= ignorenextY
  BY InterruptsAssumption DEF IrqInit, InterruptsAssumption
<1>3. ausgewauhlt \in Items
  BY InterruptsAssumption DEF IrqInit, InterruptsAssumption, Items, Continue
<1>4. IrqTypeOK
  BY <1>1, <1>2, <1>3 DEF IrqInit, IrqTypeOK, Irq
<1>5. PendingAsOnTheGba /\ RunWhileAnswered
  BY DEF IrqInit, PendingAsOnTheGba, RunWhileAnswered
<1>6. NoMessageForgotten /\ EmulatorKeepsItsInterrupts
  BY DEF IrqInit, NoMessageForgotten, EmulatorKeepsItsInterrupts
<1> QED
  BY <1>2, <1>4, <1>5, <1>6 DEF IrqInv, BreakOutlastsOldFrames

(* The parts of the invariant hold together for any masks, any number of   *)
(* frames and any length of the menu.                                      *)
THEOREM IrqInvariant == IrqSpec => []IrqInv
<1>1. IrqInv /\ [IrqNext]_<<irqVars, timerVars>> => IrqInv'
  BY StepKeepsIrqTypes, StepKeepsPending, StepKeepsDma, StepKeepsMessages,
     StepKeepsEnabled, StepKeepsBreak DEF IrqInv
<1> QED
  BY IrqStarts, <1>1, PTL DEF IrqSpec, HandlersInit

(* What the game enabled and the GBA would have pending waits for it.      *)
THEOREM PendingForTheGame == IrqSpec => []InterruptsWaitForTheGame
<1>1. IrqInv => InterruptsWaitForTheGame
  BY DEF IrqInv, PendingAsOnTheGba, InterruptsWaitForTheGame
<1> QED
  BY <1>1, IrqInvariant, PTL

(* The H-blank DMA runs once for a line of the GBA's.                      *)
THEOREM LineDmaOnce == IrqSpec => []HblankDmaOncePerLine
<1>1. IrqInv => HblankDmaOncePerLine
  BY DEF IrqInv, RunWhileAnswered, HblankDmaOncePerLine
<1> QED
  BY <1>1, IrqInvariant, PTL

(* A message of the ARM7's that waits has its interrupt pending.           *)
THEOREM MessagesHeard == IrqSpec => []NoMessageForgotten
<1>1. IrqInv => NoMessageForgotten
  BY DEF IrqInv
<1> QED
  BY <1>1, IrqInvariant, PTL

(* Whatever the game writes to IE, the emulator's own two stay enabled.    *)
THEOREM EmulatorHears == IrqSpec => []EmulatorKeepsItsInterrupts
<1>1. IrqInv => EmulatorKeepsItsInterrupts
  BY DEF IrqInv
<1> QED
  BY <1>1, IrqInvariant, PTL

(* The V-blanks that waited while the menu was open do not open it again.  *)
THEOREM MenuStaysClosed == IrqSpec => MenuOpensForNewFramesOnly
<1>1. ASSUME IrqInv, [IrqNext]_<<irqVars, timerVars>>
      PROVE  [pc9 = "fifo" /\ pc9' = "menu" => oldFrames = 0]_irqVars
  <2> SUFFICES ASSUME pc9 = "fifo", pc9' = "menu" PROVE oldFrames = 0
    OBVIOUS
  <2>1. VblankHandler
    BY <1>1
       DEF IrqNext, NextLine, Hblank, Raise, Frame, PressOrRelease, GameWritesIE,
           GameWritesIME, GameSteps, TakeHblank, TakeFifo, TakeOther, Taken,
           FifoEmpty, Afterwards, HandlerReads, HandlerAnswers, HandlerReturns,
           MenuMoves, MenuContinues, irqVars
  <2>2. ignorenextY = 0
    BY <2>1 DEF VblankHandler
  <2> QED
    BY <1>1, <2>2, InterruptsAssumption
       DEF IrqInv, IrqTypeOK, BreakOutlastsOldFrames, InterruptsAssumption
<1> QED
  BY <1>1, IrqInvariant, PTL DEF IrqSpec, HandlersInit, MenuOpensForNewFramesOnly
-----------------------------------------------------------------------------
(* The DMA channels.  What each way of a transfer leaves in the pointers,  *)
(* whatever it has copied.                                                 *)
LEMMA SlowLeaves ==
  ASSUME NEW m, NEW s, NEW d, NEW si, NEW di, NEW c, NEW w
  PROVE  LET t == Slow(m, s, d, si, di, c, w)
         IN t.path = "slow" /\ t.s = Align(s, w) + c * si * w /\ t.d = d + c * di * w
BY DEF Slow
LEMMA StreamedLeaves ==
  ASSUME NEW m, NEW s, NEW d, NEW c, NEW w
  PROVE  LET t == Streamed(m, s, d, c, w) IN t.path = "stream" /\ t.s = s /\ t.d = d
BY DEF Streamed
LEMMA HardwareLeaves ==
  ASSUME NEW m, NEW s, NEW d, NEW si, NEW di, NEW c, NEW w
  PROVE  LET t == Hardware(m, s, d, si, di, c, w)
         IN t.path = "hardware" /\ t.s = s /\ t.d = d
BY DEF Hardware

(* A source that names what it named: the same, or the image's copy of it. *)
InImage(s) == Region(s) \in Rom .. 12 /\ s % (2 * Size) < RomSize
SamePlace(from, s) == s = from \/ (InImage(from) /\ s = Loaded(from % (2 * Size)))

Ways == {"slow", "stream", "hardware"}
Steps == {-1, 0, 1}
UnitSizes == {1, 2}
ChannelRecords == [sad : Nat, dad : Nat, count : Nat \ {0}, ctl : DmaControls]

(* The sizes, as integers.                                                 *)
LEMMA SizesAre ==
  /\ Size \in Nat \ {0} /\ RomAt \in Nat \ {0} /\ RomSize \in Nat \ {0}
  /\ RomAt + RomSize < Size
BY DmaSizes

(* However many units a count stands for, it stands for some.              *)
LEMMA CountIsSome == ASSUME NEW n, NEW l \in Nat PROVE CountOf(n, l) \in Nat \ {0}
<1>1. Longest \in Nat \ {0}
  BY DmaSizes
<1>2. QED
  BY <1>1 DEF CountOf

LEMMA ImageCopyIsWork ==
  ASSUME NEW k \in 0 .. RomSize - 1
  PROVE  Loaded(k) \in Nat /\ Region(Loaded(k)) = Work
<1> DEFINE r == RomAt + k
<1>1. r \in 0 .. Size - 1 /\ Size \in Nat \ {0}
  BY SizesAre
<1>2. Loaded(k) = 2 * Size + r
  BY SizesAre DEF Loaded, Work
<1>3. Loaded(k) \in Nat /\ Loaded(k) \div Size \in Int
  BY <1>1, <1>2
<1> HIDE DEF r
<1>4. Loaded(k) \div Size = 2
  BY ONLY <1>1, <1>2, <1>3
<1>5. QED
  BY <1>3, <1>4 DEF Region, Work

(* A step of a control is one of three.                                    *)
LEMMA StepIs == ASSUME NEW k \in 0 .. 3 PROVE Step(k) \in Steps
BY DEF Step, Steps

PointersLeft(t, s, d, si, di, c, w) ==
  /\ t.path \in Ways /\ t.s \in Int /\ t.d \in Int
  /\ t.path = "slow" => t.s = Align(s, w) + c * si * w /\ t.d = d + c * di * w
  /\ t.path # "slow" => t.d = d /\ (c > 0 => SamePlace(s, t.s))

LEMMA TransferLeaves ==
  ASSUME NEW m, NEW s \in Int, NEW d \in Int, NEW si \in Steps, NEW di \in Steps,
         NEW c \in Nat, NEW w \in UnitSizes
  PROVE  PointersLeft(doDMA(m, s, d, si, di, c, w), s, d, si, di, c, w)
<1> USE DEF PointersLeft, Steps, UnitSizes
<1> DEFINE t == doDMA(m, s, d, si, di, c, w)
           to == Loaded(s % (2 * Size))
<1>1. Align(s, w) + c * si * w \in Int /\ d + c * di * w \in Int
  BY DEF Align
<1>2. s % (2 * Size) \in Nat /\ to \in Int
  BY SizesAre DEF Loaded, Work
<1>3. CASE t = Slow(m, s, d, si, di, c, w)
  BY <1>1, <1>3, SlowLeaves DEF Ways, SamePlace
<1>4. CASE t = Streamed(m, s, d, c, w)
  BY <1>4, StreamedLeaves DEF Ways, SamePlace
<1>5. CASE t = Hardware(m, s, d, si, di, c, w)
  BY <1>5, HardwareLeaves DEF Ways, SamePlace
<1>6. CASE /\ t = Hardware(m, to, d, si, di, c, w)
           /\ Region(s) \in Int => Region(s) \in Rom .. 12
           /\ ~OnCard(s, c)
  <2>1. t.path = "hardware" /\ t.s = to /\ t.d = d
    BY <1>6, HardwareLeaves
  <2>2. Region(s) \in Int
    BY SizesAre DEF Region
  <2>3. c > 0 => s % (2 * Size) < RomSize
    BY <1>2, <1>6, SizesAre DEF OnCard
  <2>4. QED
    BY <1>2, <1>6, <2>1, <2>2, <2>3 DEF Ways, InImage, SamePlace
<1>7. QED
  <2>1. \/ t = Slow(m, s, d, si, di, c, w)
        \/ t = Streamed(m, s, d, c, w)
        \/ t = Hardware(m, s, d, si, di, c, w)
        \/ /\ t = Hardware(m, to, d, si, di, c, w)
           /\ Region(s) >= Rom /\ ~(Region(s) >= 13) /\ ~OnCard(s, c)
    BY DEF doDMA
  <2>2. Region(s) >= Rom /\ ~(Region(s) >= 13) => (Region(s) \in Int => Region(s) \in Rom .. 12)
    BY DEF Rom
  <2>3. QED
    BY <1>3, <1>4, <1>5, <1>6, <2>1, <2>2

-----------------------------------------------------------------------------
(* A section runs its own channel and leaves the others.                   *)
Typed(st) ==
  /\ st.chan \in [Channels -> ChannelRecords]
  /\ st.s \in [Channels -> Int] /\ st.d \in [Channels -> Int]
  /\ st.path \in [Channels -> Ways \cup {None}]

(* Channel n of two states, the second with the channel run once.          *)
Ran(st, t, n, reason) ==
  LET r == st.chan[n] IN
  /\ t.chan[n] = [r EXCEPT !.ctl = After(r.ctl, reason)]
  /\ t.path[n] \in Ways
  /\ t.path[n] = "slow" =>
       /\ t.s[n] = Align(st.s[n], r.ctl.width) + Pace(r, 0).s
       /\ t.d[n] = IF r.ctl.dstep = 3 THEN r.dad
                   ELSE st.d[n] + r.count * Step(r.ctl.dstep) * r.ctl.width
  /\ t.path[n] # "slow" =>
       /\ t.d[n] \in {st.d[n], r.dad}
       /\ r.count > 0 => SamePlace(st.s[n], t.s[n])
Still(st, t, n) ==
  t.chan[n] = st.chan[n] /\ t.path[n] = st.path[n] /\ t.s[n] = st.s[n] /\ t.d[n] = st.d[n]

LEMMA AfterIs ==
  ASSUME NEW ctl \in DmaControls, NEW reason PROVE After(ctl, reason) \in DmaControls
BY DEF After, DmaControls

LEMMA SectionRuns ==
  ASSUME NEW st, Typed(st), NEW n \in Channels, NEW reason
  PROVE  LET t == Section(st, n, reason)
         IN /\ Typed(t)
            /\ \A k \in Channels \ {n} : Still(st, t, k)
            /\ IF Runs(st.chan, n, reason) THEN Ran(st, t, n, reason) ELSE Still(st, t, n)
<1> DEFINE t == Section(st, n, reason)
           r == st.chan[n]
           si == Step(r.ctl.sstep)
           di == Step(r.ctl.dstep)
           x == doDMA(st.mem, st.s[n], st.d[n], si, di, r.count, r.ctl.width)
<1>1. CASE ~Runs(st.chan, n, reason)
  BY <1>1 DEF Section, Still
<1>2. CASE Runs(st.chan, n, reason)
  <2>1. /\ r \in ChannelRecords /\ r.ctl \in DmaControls /\ r.count \in Nat /\ r.dad \in Nat
        /\ r.ctl.width \in UnitSizes /\ st.s[n] \in Int /\ st.d[n] \in Int
        /\ si \in Steps /\ di \in Steps
    BY StepIs DEF Typed, ChannelRecords, DmaControls, UnitSizes
  <2>2. PointersLeft(x, st.s[n], st.d[n], si, di, r.count, r.ctl.width)
    BY ONLY <2>1, TransferLeaves, Zenon
  <2>3. /\ t.chan = [st.chan EXCEPT ![n].ctl = After(r.ctl, reason)]
        /\ t.s = [st.s EXCEPT ![n] = x.s] /\ t.d = [st.d EXCEPT ![n] = Reloaded(r, x)]
        /\ t.path = [st.path EXCEPT ![n] = x.path]
    BY <1>2 DEF Section
  <2> HIDE DEF x, t
  <2>4. Reloaded(r, x) = (IF r.ctl.dstep = 3 THEN r.dad ELSE x.d) /\ Reloaded(r, x) \in Int
    BY <2>1, <2>2 DEF Reloaded, PointersLeft
  <2>5. t.chan \in [Channels -> ChannelRecords] /\ t.chan[n] = [r EXCEPT !.ctl = After(r.ctl, reason)]
    <3>1. After(r.ctl, reason) \in DmaControls
      BY <2>1, AfterIs
    <3>2. QED
      BY <2>1, <2>3, <3>1 DEF Typed, ChannelRecords
  <2>6. Typed(t)
    BY <2>2, <2>3, <2>4, <2>5 DEF Typed, PointersLeft
  <2>7. \A k \in Channels \ {n} : Still(st, t, k)
    BY <2>3 DEF Still, Typed
  <2>8. t.s[n] = x.s /\ t.d[n] = Reloaded(r, x) /\ t.path[n] = x.path
    BY <2>3 DEF Typed
  <2>9. Pace(r, 0).s = r.count * si * r.ctl.width
    BY <2>1 DEF Pace, Steps, UnitSizes
  <2> HIDE DEF si, di
  <2>10. Ran(st, t, n, reason)
    BY <2>2, <2>4, <2>5, <2>8, <2>9 DEF Ran, PointersLeft, si, di
  <2>11. QED
    BY <1>2, <2>6, <2>7, <2>10 DEF t
<1>3. QED
  BY <1>1, <1>2

(* CPUCheckDMA: the sections one after another.                            *)
Advances(st, t, did, reason) ==
  /\ Typed(t)
  /\ \A n \in Channels : IF n \in did /\ Runs(st.chan, n, reason)
                        THEN Ran(st, t, n, reason) ELSE Still(st, t, n)

LEMMA NextSection ==
  ASSUME NEW st, NEW t, NEW did, NEW reason, Advances(st, t, did, reason),
         NEW n \in Channels \ did
  PROVE  Advances(st, Section(t, n, reason), did \cup {n}, reason)
<1> DEFINE u == Section(t, n, reason)
<1>1. /\ Typed(u) /\ \A k \in Channels \ {n} : Still(t, u, k)
      /\ IF Runs(t.chan, n, reason) THEN Ran(t, u, n, reason) ELSE Still(t, u, n)
  BY SectionRuns DEF Advances
<1>2. Still(st, t, n)
  BY DEF Advances
<1> HIDE DEF u
<1>3. IF Runs(st.chan, n, reason) THEN Ran(st, u, n, reason) ELSE Still(st, u, n)
  BY <1>1, <1>2 DEF Still, Ran, Runs
<1>4. ASSUME NEW k \in Channels \ {n}
      PROVE  IF k \in did /\ Runs(st.chan, k, reason) THEN Ran(st, u, k, reason) ELSE Still(st, u, k)
  BY <1>1, <1>4 DEF Still, Ran, Advances
<1>5. QED
  BY <1>1, <1>3, <1>4 DEF Advances, u

LEMMA SectionInTurn ==
  ASSUME NEW st, NEW t, NEW did, NEW reason, reason # 3, NEW mask,
         Advances(st, t, did \cap mask, reason), NEW n \in (0 .. 3) \ did
  PROVE  Advances(st, InTurn(n, t, reason, mask), (did \cup {n}) \cap mask, reason)
<1>1. CASE n \in mask \cap Channels
  <2>1. Advances(st, Section(t, n, reason), (did \cap mask) \cup {n}, reason)
    BY <1>1, NextSection
  <2>2. (did \cap mask) \cup {n} = (did \cup {n}) \cap mask
    BY <1>1
  <2>3. /\ SoundSection(t, n, reason) = Section(t, n, reason)
        /\ LastSection(t, n, reason) = Section(t, n, reason)
    BY DEF SoundSection, LastSection
  <2>4. InTurn(n, t, reason, mask) = Section(t, n, reason)
    BY ONLY <1>1, <2>3, n \in 0 .. 3 DEF InTurn
  <2>5. QED
    BY <2>1, <2>2, <2>4
<1>2. CASE n \notin mask \cap Channels
  <2>1. \A m \in Channels : m \in (did \cup {n}) \cap mask <=> m \in did \cap mask
    BY <1>2
  <2>2. InTurn(n, t, reason, mask) = t
    BY <1>2 DEF InTurn
  <2>3. QED
    BY <2>1, <2>2 DEF Advances
<1>3. QED
  BY <1>1, <1>2

LEMMA CheckAdvances ==
  ASSUME NEW st, Typed(st), NEW reason, reason # 3, NEW mask
  PROVE  Advances(st, CPUCheckDMA(st, reason, mask), mask, reason)
<1> DEFINE a == InTurn(0, st, reason, mask)
           b == InTurn(1, a, reason, mask)
           c == InTurn(2, b, reason, mask)
           d == InTurn(3, c, reason, mask)
<1>1. CPUCheckDMA(st, reason, mask) = d
  BY DEF CPUCheckDMA
<1>2. Advances(st, st, {} \cap mask, reason)
  BY DEF Advances, Still
<1>3. /\ 0 \in (0 .. 3) \ {} /\ 1 \in (0 .. 3) \ {0}
      /\ 2 \in (0 .. 3) \ {0, 1} /\ 3 \in (0 .. 3) \ {0, 1, 2}
  OBVIOUS
<1>4. {} \cup {0} = {0} /\ {0} \cup {1} = {0, 1} /\ {0, 1} \cup {2} = {0, 1, 2}
  OBVIOUS
<1> HIDE DEF a, b, c, d
<1>5. Advances(st, a, {0} \cap mask, reason)
  BY ONLY <1>2, <1>3, <1>4, reason # 3, SectionInTurn, Zenon DEF a
<1>6. Advances(st, b, {0, 1} \cap mask, reason)
  BY ONLY <1>5, <1>3, <1>4, reason # 3, SectionInTurn, Zenon DEF b
<1>7. Advances(st, c, {0, 1, 2} \cap mask, reason)
  BY ONLY <1>6, <1>3, <1>4, reason # 3, SectionInTurn, Zenon DEF c
<1>8. Advances(st, d, ({0, 1, 2} \cup {3}) \cap mask, reason)
  BY ONLY <1>7, <1>3, reason # 3, SectionInTurn, Zenon DEF d
<1>9. \A k \in Channels : k \in ({0, 1, 2} \cup {3}) \cap mask <=> k \in mask
  BY DmaGame DEF Channels
<1>10. QED
  BY <1>1, <1>8, <1>9 DEF Advances
-----------------------------------------------------------------------------
(* A running channel that only went word by word is where the GBA's would  *)
(* be, and one that never did is where it began.                           *)
OnItsWay(r, s, d, g) ==
  r.ctl.on => /\ r.count > 0 /\ g.to = r.dad
              /\ g.ways \subseteq {"slow"} => s = g.s /\ d = g.d
              /\ "slow" \notin g.ways => d = g.to /\ SamePlace(g.from, s)
DmaInv ==
  /\ DmaTypeOK
  /\ \A n \in Channels : OnItsWay(chan[n], dmaSource[n], dmaDest[n], gba[n])

GbaRecords == [s : Int, d : Int, from : Nat, to : Nat, ways : SUBSET Ways]

LEMMA PlacesPass ==
  ASSUME NEW from \in Nat, NEW s, NEW t, SamePlace(from, s), SamePlace(s, t)
  PROVE  SamePlace(from, t)
<1>1. CASE s = from
  BY <1>1
<1>2. CASE InImage(from) /\ s = Loaded(from % (2 * Size))
  <2>1. from % (2 * Size) \in 0 .. RomSize - 1
    BY <1>2, SizesAre DEF InImage
  <2>2. ~InImage(s)
    BY <1>2, <2>1, ImageCopyIsWork DEF InImage, Work, Rom
  <2>3. QED
    BY <2>2 DEF SamePlace
<1>3. QED
  BY <1>1, <1>2 DEF SamePlace

LEMMA FollowedIs ==
  ASSUME NEW g \in GbaRecords, NEW r \in ChannelRecords, NEW how \in Ways
  PROVE  LET f == Followed(g, r, how)
         IN /\ f \in GbaRecords
            /\ f.s = Align(g.s, r.ctl.width) + Pace(r, 0).s
            /\ f.d = IF r.ctl.dstep = 3 THEN r.dad
                     ELSE g.d + r.count * Step(r.ctl.dstep) * r.ctl.width
            /\ f.from = g.from /\ f.to = g.to /\ f.ways = g.ways \cup {how}
<1> DEFINE f == Followed(g, r, how)
           w == r.ctl.width
           di == Step(r.ctl.dstep)
           si == Step(r.ctl.sstep)
<1>1. /\ r.count \in Nat /\ r.dad \in Nat /\ w \in UnitSizes /\ di \in Steps /\ si \in Steps
      /\ g.s \in Int /\ g.d \in Int /\ g.ways \subseteq Ways
  BY StepIs DEF ChannelRecords, DmaControls, UnitSizes, GbaRecords
<1>2. f = [g EXCEPT !.s = Align(g.s, w) + Pace(r, g.d).s, !.d = g.d + Pace(r, g.d).d,
                    !.ways = g.ways \cup {how}]
  BY DEF Followed, GbaRecords
<1>3. Pace(r, g.d).s = Pace(r, 0).s /\ Pace(r, 0).s = si * r.count * w
  BY DEF Pace
<1>4. Pace(r, g.d).d = IF r.ctl.dstep = 3 THEN r.dad - g.d ELSE di * r.count * w
  BY DEF Pace
<1> HIDE DEF f, w, di, si
<1>5. si * r.count * w \in Int /\ di * r.count * w \in Int /\ di * r.count * w = r.count * di * w
  BY ONLY <1>1 DEF Steps, UnitSizes
<1>6. Align(g.s, w) \in Int
  BY ONLY <1>1 DEF Align, UnitSizes
<1>7. /\ f.s = Align(g.s, w) + Pace(r, 0).s /\ f.d = g.d + Pace(r, g.d).d
      /\ f.from = g.from /\ f.to = g.to /\ f.ways = g.ways \cup {how}
  BY <1>2, <1>3 DEF GbaRecords
<1>8. /\ f.d = IF r.ctl.dstep = 3 THEN r.dad ELSE g.d + r.count * di * w
      /\ f.s \in Int /\ f.d \in Int
  BY ONLY <1>1, <1>3, <1>4, <1>5, <1>6, <1>7
<1>9. f \in GbaRecords
  BY <1>1, <1>2, <1>7, <1>8 DEF GbaRecords
<1>10. QED
  BY <1>7, <1>8, <1>9 DEF f, w, di

(* A transfer takes its channel one step on the way, or switches it off.   *)
LEMMA RunKeepsTheWay ==
  ASSUME NEW st, NEW t, Typed(st), NEW n \in Channels, NEW reason, Ran(st, t, n, reason),
         NEW g \in GbaRecords, st.chan[n].ctl.on, OnItsWay(st.chan[n], st.s[n], st.d[n], g)
  PROVE  LET f == Followed(g, st.chan[n], t.path[n])
         IN f \in GbaRecords /\ OnItsWay(t.chan[n], t.s[n], t.d[n], f)
<1> DEFINE r == st.chan[n]
           u == t.chan[n]
           how == t.path[n]
           f == Followed(g, r, how)
<1>1. r \in ChannelRecords /\ r.ctl \in DmaControls /\ how \in Ways
  BY DEF Typed, ChannelRecords, Ran
<1>2. /\ f \in GbaRecords
      /\ f.s = Align(g.s, r.ctl.width) + Pace(r, 0).s
      /\ f.d = IF r.ctl.dstep = 3 THEN r.dad ELSE g.d + r.count * Step(r.ctl.dstep) * r.ctl.width
      /\ f.from = g.from /\ f.to = g.to /\ f.ways = g.ways \cup {how}
  BY <1>1, FollowedIs
<1>3. u.count = r.count /\ u.dad = r.dad
  BY <1>1 DEF Ran, ChannelRecords
<1> HIDE DEF f
<1>4. /\ r.count > 0 /\ g.to = r.dad
      /\ g.ways \subseteq {"slow"} => st.s[n] = g.s /\ st.d[n] = g.d
      /\ "slow" \notin g.ways => st.d[n] = g.to /\ SamePlace(g.from, st.s[n])
  BY DEF OnItsWay
<1>5. ASSUME f.ways \subseteq {"slow"} PROVE t.s[n] = f.s /\ t.d[n] = f.d
  <2>1. how = "slow" /\ g.ways \subseteq {"slow"}
    BY <1>2, <1>5
  <2>2. QED
    BY <1>2, <1>4, <2>1 DEF Ran
<1>6. ASSUME "slow" \notin f.ways PROVE t.d[n] = f.to /\ SamePlace(f.from, t.s[n])
  <2>1. how # "slow" /\ "slow" \notin g.ways
    BY <1>2, <1>6
  <2>2. /\ t.d[n] \in {st.d[n], r.dad} /\ SamePlace(st.s[n], t.s[n])
    BY <1>4, <2>1 DEF Ran
  <2>3. SamePlace(g.from, t.s[n])
    BY <1>4, <2>1, <2>2, PlacesPass DEF GbaRecords
  <2>4. QED
    BY <1>2, <1>4, <2>1, <2>2, <2>3
<1>7. OnItsWay(u, t.s[n], t.d[n], f)
  BY <1>2, <1>3, <1>4, <1>5, <1>6 DEF OnItsWay
<1>8. QED
  BY <1>2, <1>7 DEF f
LEMMA StateIsTyped == ASSUME DmaTypeOK PROVE Typed(State)
BY DEF DmaTypeOK, Typed, State, ChannelRecords, Ways

LEMMA AddressesKeepDmaInv ==
  ASSUME DmaInv, NEW n \in Channels, WriteAddresses(n)
  PROVE  DmaInv'
<1>1. PICK t \in Game[n].transfer :
        chan' = [chan EXCEPT ![n].sad = t[1] % Reach(n), ![n].dad = t[2] % DestReach(n),
                             ![n].count = CountOf(n, t[3])]
  BY DEF WriteAddresses
<1>2. t[1] % Reach(n) \in Nat /\ t[2] % DestReach(n) \in Nat
      /\ CountOf(n, t[3]) \in Nat \ {0}
  <2>1. t \in Nat \X Nat \X Nat
    BY DmaGame DEF Channels
  <2>2. Reach(n) \in Nat \ {0} /\ DestReach(n) \in Nat \ {0}
    BY SizesAre DEF Reach, DestReach
  <2>3. QED
    BY <2>1, <2>2, CountIsSome
<1>3. ~chan[n].ctl.on /\ UNCHANGED <<dmaSource, dmaDest, path, gba, starts>>
  BY DEF WriteAddresses
<1>4. chan \in [Channels -> ChannelRecords]
  BY DEF DmaInv, DmaTypeOK, ChannelRecords
<1>5. chan' \in [Channels -> ChannelRecords]
  BY <1>1, <1>2, <1>4 DEF ChannelRecords
<1>6. chan'[n].ctl = chan[n].ctl /\ \A k \in Channels \ {n} : chan'[k] = chan[k]
  BY <1>1, <1>4 DEF ChannelRecords
<1>7. DmaTypeOK'
  BY <1>3, <1>5 DEF DmaInv, DmaTypeOK, ChannelRecords
<1>8. ASSUME NEW k \in Channels PROVE OnItsWay(chan[k], dmaSource[k], dmaDest[k], gba[k])'
  <2>1. CASE k = n
    BY <1>3, <1>6, <2>1 DEF OnItsWay
  <2>2. CASE k # n
    BY <1>3, <1>6, <2>2 DEF DmaInv
  <2>3. QED
    BY <2>1, <2>2
<1>9. QED
  BY <1>7, <1>8 DEF DmaInv

LEMMA TriggerKeepsDmaInv ==
  ASSUME DmaInv, NEW reason \in {1, 2}, Trigger(reason)
  PROVE  DmaInv'
<1> DEFINE t == CPUCheckDMA(State, reason, 0 .. 3)
<1>1. /\ Becomes(t) /\ starts < MaxStarts /\ starts' = starts + 1
      /\ gba' = [n \in Channels |-> IF Runs(chan, n, reason)
                                    THEN Followed(gba[n], chan[n], t.path[n]) ELSE gba[n]]
  BY DEF Trigger
<1>2. Typed(State) /\ gba \in [Channels -> GbaRecords] /\ starts \in 0 .. MaxStarts
  BY StateIsTyped DEF DmaInv, DmaTypeOK, GbaRecords, Ways
<1>3. Advances(State, t, 0 .. 3, reason)
  BY <1>2, CheckAdvances
<1> HIDE DEF t
<1>4. chan' = t.chan /\ dmaSource' = t.s /\ dmaDest' = t.d /\ path' = t.path
  BY <1>1 DEF Becomes
<1>5. State.chan = chan /\ State.s = dmaSource /\ State.d = dmaDest /\ State.path = path
  BY DEF State
<1>6. ASSUME NEW n \in Channels
      PROVE  gba'[n] \in GbaRecords /\ OnItsWay(chan'[n], dmaSource'[n], dmaDest'[n], gba'[n])
  <2>1. OnItsWay(chan[n], dmaSource[n], dmaDest[n], gba[n]) /\ gba[n] \in GbaRecords
    BY <1>2 DEF DmaInv
  <2>2. CASE Runs(chan, n, reason)
    <3>1. Ran(State, t, n, reason)
      BY <1>3, <1>5, <2>2, DmaGame DEF Advances, Channels
    <3>2. chan[n].ctl.on /\ gba'[n] = Followed(gba[n], chan[n], t.path[n])
      BY <1>1, <2>2 DEF Runs
    <3>3. QED
      BY <1>2, <1>4, <1>5, <2>1, <3>1, <3>2, RunKeepsTheWay
  <2>3. CASE ~Runs(chan, n, reason)
    <3>1. Still(State, t, n) /\ gba'[n] = gba[n]
      BY <1>1, <1>3, <1>5, <2>3 DEF Advances
    <3>2. QED
      BY <1>4, <1>5, <2>1, <3>1 DEF Still
  <2>4. QED
    BY <2>2, <2>3
<1>7. gba' \in [Channels -> GbaRecords]
  BY <1>1, <1>6
<1>8. Typed(t)
  BY <1>3 DEF Advances
<1>9. DmaTypeOK'
  <2>1. starts' \in 0 .. MaxStarts
    BY <1>1, <1>2, DmaSizes
  <2>2. QED
    BY <1>4, <1>7, <1>8, <2>1 DEF DmaTypeOK, Typed, GbaRecords, ChannelRecords, Ways
<1>10. QED
  BY <1>6, <1>9 DEF DmaInv

LEMMA ControlKeepsDmaInv ==
  ASSUME DmaInv, NEW n \in Channels, WriteDMCNT(n)
  PROVE  DmaInv'
<1> DEFINE Rewritten(v) == [chan[n] EXCEPT !.ctl = v]
           Latched(v) == [State EXCEPT !.chan[n] = Rewritten(v)]
           Ready(v) == [Latched(v) EXCEPT !.s[n] = Rewritten(v).sad, !.d[n] = Rewritten(v).dad]
           From(v) == [s |-> Rewritten(v).sad, d |-> Rewritten(v).dad,
                       from |-> Rewritten(v).sad, to |-> Rewritten(v).dad, ways |-> {}]
<1>1. PICK v \in Game[n].control :
        /\ starts < MaxStarts
        /\ Becomes(IF v.on /\ ~chan[n].ctl.on THEN CPUCheckDMA(Ready(v), 0, {n}) ELSE Latched(v))
        /\ starts' = starts + (IF v.on /\ ~chan[n].ctl.on /\ v.when = 0 THEN 1 ELSE 0)
        /\ gba' = [gba EXCEPT ![n] = IF ~(v.on /\ ~chan[n].ctl.on) THEN @
                                    ELSE IF v.when = 0
                                    THEN Followed(From(v), Rewritten(v),
                                                  CPUCheckDMA(Ready(v), 0, {n}).path[n])
                                    ELSE From(v)]
  BY DEF WriteDMCNT
<1> DEFINE r == Rewritten(v)
           st == Latched(v)
           ready == Ready(v)
           t == CPUCheckDMA(ready, 0, {n})
           g == From(v)
<1>2. /\ chan \in [Channels -> ChannelRecords] /\ gba \in [Channels -> GbaRecords]
      /\ starts \in 0 .. MaxStarts /\ Typed(State)
  BY StateIsTyped DEF DmaInv, DmaTypeOK, GbaRecords, Ways, ChannelRecords
<1>3. v \in DmaControls
  BY DmaGame DEF Channels
<1>4. /\ r \in ChannelRecords /\ r.ctl = v /\ r.count = chan[n].count /\ r.count > 0
      /\ r.sad = chan[n].sad /\ r.dad = chan[n].dad
  BY <1>2, <1>3 DEF ChannelRecords
<1>5. /\ st.chan = [chan EXCEPT ![n] = r] /\ st.s = dmaSource /\ st.d = dmaDest /\ st.path = path
      /\ ready.chan = [chan EXCEPT ![n] = r] /\ ready.s = [dmaSource EXCEPT ![n] = r.sad]
      /\ ready.d = [dmaDest EXCEPT ![n] = r.dad] /\ ready.path = path
  BY DEF State
<1> HIDE DEF Rewritten, Latched, Ready
<1>6. g \in GbaRecords
  BY <1>4 DEF GbaRecords, ChannelRecords, Ways
<1>7. /\ Typed(st) /\ Typed(ready)
      /\ \A k \in Channels \ {n} : st.chan[k] = chan[k] /\ ready.chan[k] = chan[k]
      /\ \A k \in Channels \ {n} : ready.s[k] = dmaSource[k] /\ ready.d[k] = dmaDest[k]
      /\ st.chan[n] = r /\ ready.chan[n] = r /\ ready.s[n] = r.sad /\ ready.d[n] = r.dad
  BY <1>2, <1>4, <1>5 DEF Typed, State, ChannelRecords
<1>8. \A k \in Channels : OnItsWay(chan[k], dmaSource[k], dmaDest[k], gba[k])
  BY DEF DmaInv
<1>9. starts' \in 0 .. MaxStarts
  BY <1>1, <1>2, DmaSizes
<1>10. CASE ~(v.on /\ ~chan[n].ctl.on)
  <2>1. Becomes(st) /\ gba' = gba
    BY <1>1, <1>2, <1>10
  <2>2. chan' = st.chan /\ dmaSource' = st.s /\ dmaDest' = st.d /\ path' = st.path
    BY <2>1 DEF Becomes
  <2>3. DmaTypeOK'
    BY <1>2, <1>7, <1>9, <2>1, <2>2 DEF DmaTypeOK, Typed, GbaRecords, ChannelRecords, Ways
  <2>4. ASSUME NEW k \in Channels PROVE OnItsWay(chan[k], dmaSource[k], dmaDest[k], gba[k])'
    <3>1. CASE k = n
      BY <1>4, <1>5, <1>7, <1>8, <1>10, <2>1, <2>2, <3>1 DEF OnItsWay
    <3>2. CASE k # n
      BY <1>5, <1>7, <1>8, <2>1, <2>2, <3>2
    <3>3. QED
      BY <3>1, <3>2
  <2>5. QED
    BY <2>3, <2>4 DEF DmaInv
<1>11. CASE v.on /\ ~chan[n].ctl.on
  <2>1. Advances(ready, t, {n}, 0)
    BY <1>7, CheckAdvances
  <2>2. /\ Becomes(t)
        /\ gba' = [gba EXCEPT ![n] = IF v.when = 0 THEN Followed(g, r, t.path[n]) ELSE g]
    BY <1>1, <1>11
  <2> HIDE DEF t, g
  <2>3. chan' = t.chan /\ dmaSource' = t.s /\ dmaDest' = t.d /\ path' = t.path
    BY <2>2 DEF Becomes
  <2>4. Typed(t)
    BY <2>1 DEF Advances
  <2>5. gba'[n] \in GbaRecords /\ OnItsWay(chan'[n], dmaSource'[n], dmaDest'[n], gba'[n])
    <3>1. CASE v.when = 0
      <4>1. Ran(ready, t, n, 0)
        BY <1>4, <1>7, <1>11, <2>1, <3>1 DEF Advances, Runs
      <4>2. gba'[n] = Followed(g, r, t.path[n])
        BY <1>2, <2>2, <3>1
      <4>3. gba'[n] \in GbaRecords
        BY <1>4, <1>6, <4>1, <4>2, FollowedIs DEF Ran
      <4>4. ~chan'[n].ctl.on
        BY <1>4, <1>7, <2>3, <4>1 DEF Ran, After, ChannelRecords, DmaControls
      <4>5. QED
        BY <4>3, <4>4 DEF OnItsWay
    <3>2. CASE v.when # 0
      <4>1. Still(ready, t, n)
        BY <1>4, <1>7, <2>1, <3>2 DEF Advances, Runs
      <4>2. gba'[n] = g
        BY <1>2, <2>2, <3>2
      <4>3. chan'[n] = r /\ dmaSource'[n] = r.sad /\ dmaDest'[n] = r.dad
        BY <1>7, <2>3, <4>1 DEF Still
      <4>4. OnItsWay(r, r.sad, r.dad, g)
        BY <1>4 DEF OnItsWay, SamePlace, g
      <4>5. QED
        BY <1>6, <4>2, <4>3, <4>4
    <3>3. QED
      BY <3>1, <3>2
  <2>6. ASSUME NEW k \in Channels \ {n}
        PROVE  gba'[k] = gba[k] /\ OnItsWay(chan'[k], dmaSource'[k], dmaDest'[k], gba'[k])
    <3>1. Still(ready, t, k)
      BY <2>1, <2>6 DEF Advances
    <3>2. gba'[k] = gba[k]
      BY <1>2, <2>2, <2>6
    <3>3. QED
      BY <1>7, <1>8, <2>3, <2>6, <3>1, <3>2 DEF Still
  <2>7. gba' \in [Channels -> GbaRecords]
    BY <1>2, <2>2, <2>5
  <2>8. DmaTypeOK'
    BY <1>9, <2>3, <2>4, <2>7 DEF DmaTypeOK, Typed, GbaRecords, ChannelRecords, Ways
  <2>9. QED
    BY <2>5, <2>6, <2>8 DEF DmaInv
<1>12. QED
  BY <1>10, <1>11

LEMMA DmaInvInit == ASSUME DmaInit PROVE DmaInv
<1>1. Idle \in DmaControls /\ ~Idle.on
  BY DEF Idle, DmaControls
<1>2. DmaTypeOK
  <2>1. \A n \in Channels : CountOf(n, 0) \in Nat \ {0}
    BY CountIsSome
  <2>2. QED
    BY <1>1, <2>1, DmaSizes DEF DmaInit, DmaTypeOK
<1>3. QED
  BY <1>1, <1>2 DEF DmaInit, DmaInv, OnItsWay

LEMMA DmaInvStep == ASSUME DmaInv, [DmaNext]_dmaVars PROVE DmaInv'
<1>1. CASE UNCHANGED dmaVars
  BY <1>1 DEF dmaVars, DmaInv, DmaTypeOK
<1>2. CASE DmaNext
  BY <1>2, AddressesKeepDmaInv, ControlKeepsDmaInv, TriggerKeepsDmaInv DEF DmaNext, HBlankDma, VBlankDma
<1>3. QED
  BY <1>1, <1>2

(* The channels' types, and the way of each: CPUCheckDMA and the writes to *)
(* the DMA registers, for any sizes, channels and sequence of transfers.   *)
THEOREM DmaInvariant == DmaSpec => []DmaInv
<1>1. QED
  BY DmaInvInit, DmaInvStep, PTL DEF DmaSpec

(* A channel all of whose transfers went word by word stands where the     *)
(* GBA's would; one none of whose did stands where it began, its source    *)
(* perhaps turned into the place of the same halfword of the loaded image. *)
PointersKeepPaceOrPlace ==
  \A n \in Channels : Repeating(n) =>
    /\ gba[n].ways = {"slow"} => dmaSource[n] = gba[n].s /\ dmaDest[n] = gba[n].d
    /\ "slow" \notin gba[n].ways =>
         dmaDest[n] \in {gba[n].to, chan[n].dad} /\ SamePlace(gba[n].from, dmaSource[n])
THEOREM PointersFollow == DmaSpec => []PointersKeepPaceOrPlace
<1>1. DmaInv => PointersKeepPaceOrPlace
  BY DEF DmaInv, OnItsWay, PointersKeepPaceOrPlace, Repeating
<1>2. QED
  BY <1>1, DmaInvariant, PTL

(* For a game whose transfers leave the loaded part of the image alone, a  *)
(* channel that repeats keeps the GBA's pace or its data.                  *)
LEMMA ImageCopyIsKept ==
  ASSUME ImageKept, NEW k \in 0 .. RomSize - 1 PROVE mem[Loaded(k)] = Image(k)
<1>1. Loaded(k) - Loaded(0) = k /\ Loaded(k) = Work * Size + (RomAt + k)
  BY SizesAre DEF Loaded, Work
<1>2. RomAt + k \in 0 .. RomAt + RomSize + 1
  BY SizesAre
<1>3. Loaded(k) \in Cells /\ Copy(Loaded(k))
  BY <1>1, <1>2 DEF Cells, Copy
<1>4. QED
  BY <1>1, <1>3 DEF ImageKept
THEOREM RepeatsFollow == DmaSpec /\ []ImageKept => []RepeatsKeepPaceOrPlace
<1>1. ASSUME DmaInv, PointersKeepPaceOrPlace, ImageKept, NEW n \in Channels, Repeating(n)
      PROVE  /\ gba[n].ways = {"slow"} => dmaSource[n] = gba[n].s /\ dmaDest[n] = gba[n].d
             /\ "slow" \notin gba[n].ways =>
                  /\ dmaDest[n] \in {gba[n].to, chan[n].dad}
                  /\ \/ dmaSource[n] = gba[n].from
                     \/ /\ Region(gba[n].from) \in Rom .. 12
                        /\ mem[dmaSource[n]] = Image(gba[n].from % (2 * Size))
  <2>1. gba[n].from \in Nat
    BY <1>1 DEF DmaInv, DmaTypeOK
  <2>2. InImage(gba[n].from) => gba[n].from % (2 * Size) \in 0 .. RomSize - 1
    BY <2>1, SizesAre DEF InImage
  <2>3. InImage(gba[n].from) => mem[Loaded(gba[n].from % (2 * Size))] = Image(gba[n].from % (2 * Size))
    BY <1>1, <2>2, ImageCopyIsKept
  <2>4. QED
    BY <1>1, <2>3 DEF PointersKeepPaceOrPlace, SamePlace, InImage
<1>2. DmaInv /\ PointersKeepPaceOrPlace /\ ImageKept => RepeatsKeepPaceOrPlace
  BY <1>1 DEF RepeatsKeepPaceOrPlace
<1>3. QED
  BY <1>2, DmaInvariant, PointersFollow, PTL
=============================================================================
