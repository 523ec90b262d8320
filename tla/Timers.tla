------------------------------- MODULE Timers -------------------------------
(* The game's four timers on the DS's (gba.armcore.cpp, the cases 0x100 to *)
(* 0x10E of CPUUpdateRegister; the pause menu of irqstuf.arm.cpp).  The DS *)
(* counts twice as fast, so a reload is doubled on its way to the DS's     *)
(* register.  Words count to TimerMod, 0x10000 in the code.                *)
EXTENDS Integers
CONSTANTS
  TimerMod,        \* values of a timer's word
  UsedTimers,      \* those of 0 .. 3 the game uses
  MaxTimerWrites   \* bound: writes of the game in a behaviour

Word == 0 .. TimerMod - 1
Upper == TimerMod \div 2      \* 0x8000
ASSUME TimersAssumption ==
  /\ TimerMod \in Nat \ {0} /\ TimerMod % 2 = 0
  /\ UsedTimers \subseteq 0 .. 3 /\ MaxTimerWrites \in Nat

VARIABLES
  timerReload, timerValue,   \* what the game wrote: reloads and controls
  TIMER_DATA, TIMER_CR,      \* the DS's reloads and controls
  runsFrom,                  \* where the DS's timer began this period
  timersPaused,
  gbaFrom,                   \* history: where the GBA's would have begun it
  unset, drift,              \* history: reload written after the control; a
                             \* period begun since from such a reload, or one in
                             \* which the timer was told to count something else
  counterRead,               \* the last counter read: the value, where the GBA's
                             \* began, what it has counted, whether overflows
  timerWrites
timerVars == <<timerReload, timerValue, TIMER_DATA, TIMER_CR, runsFrom, timersPaused,
               gbaFrom, unset, drift, counterRead, timerWrites>>

(* A control's bits 7 and 2: stopped, counting the clock, or counting the  *)
(* overflows of the timer before it, of which timer 0 has none.  The       *)
(* clock's divisors are the same on both machines.                         *)
TimerControls == {"off", "clock", "up"}
ControlsOf(n) == IF n = 0 THEN TimerControls \ {"up"} ELSE TimerControls

TimersInit ==
  /\ timerReload = [n \in 0 .. 3 |-> 0] /\ timerValue = [n \in 0 .. 3 |-> "off"]
  /\ TIMER_DATA = [n \in 0 .. 3 |-> 0] /\ TIMER_CR = [n \in 0 .. 3 |-> "off"]
  /\ runsFrom = [n \in 0 .. 3 |-> 0] /\ gbaFrom = [n \in 0 .. 3 |-> 0]
  /\ timersPaused = FALSE
  /\ unset = {} /\ drift = {}
  /\ counterRead = [value |-> 0, from |-> 0, counted |-> 0, up |-> FALSE]
  /\ timerWrites = 0

(* A period of timer n begins, of the reload the DS has.                   *)
Begin(ns, data) ==
  /\ runsFrom' = [n \in 0 .. 3 |-> IF n \in ns THEN data[n] ELSE runsFrom[n]]
  /\ gbaFrom' = [n \in 0 .. 3 |-> IF n \in ns THEN timerReload[n] ELSE gbaFrom[n]]
Crossed == IF timerReload[0] # timerReload[1] THEN {0} ELSE {}
Strays == unset \cup Crossed

Doubled(r) == (2 * r) % TimerMod

(* Only timer 2's reload goes on to the DS, and not doubled.               *)
WriteReload(n, r) ==
  /\ ~timersPaused /\ timerWrites < MaxTimerWrites
  /\ timerReload' = [timerReload EXCEPT ![n] = r]
  /\ TIMER_DATA' = IF n = 2 THEN [TIMER_DATA EXCEPT ![2] = r] ELSE TIMER_DATA
  /\ unset' = unset \cup {n} \cup (IF n = 1 THEN {0} ELSE {})
  /\ timerWrites' = timerWrites + 1
  /\ UNCHANGED <<timerValue, TIMER_CR, runsFrom, timersPaused, gbaFrom, drift, counterRead>>

(* The control of timer 0 takes the reload of timer 1.  A reload is doubled *)
(* whatever the timer is to count.                                         *)
ReloadOf(n) == IF n = 0 THEN timerReload[1] ELSE timerReload[n]
WriteTMCNT(n, control) ==
  LET data == [TIMER_DATA EXCEPT ![n] = Doubled(ReloadOf(n))]
      starts == IF control # "off" /\ TIMER_CR[n] = "off" THEN {n} ELSE {}
      mixed == IF "off" \notin {control, TIMER_CR[n]} /\ control # TIMER_CR[n] THEN {n} ELSE {}
  IN /\ ~timersPaused /\ timerWrites < MaxTimerWrites
     /\ timerValue' = [timerValue EXCEPT ![n] = control]
     /\ TIMER_DATA' = data
     /\ TIMER_CR' = [TIMER_CR EXCEPT ![n] = control]
     /\ Begin(starts, data)
     /\ unset' = unset \ {n}
     /\ drift' = (drift \ starts) \cup (starts \cap Crossed) \cup mixed
     /\ timerWrites' = timerWrites + 1
     /\ UNCHANGED <<timerReload, timersPaused, counterRead>>

Overflow(n) ==
  /\ TIMER_CR[n] # "off"
  /\ Begin({n}, TIMER_DATA)
  /\ drift' = IF n \in Strays THEN drift \cup {n} ELSE drift \ {n}
  /\ UNCHANGED <<timerReload, timerValue, TIMER_DATA, TIMER_CR, timersPaused, unset,
                 counterRead, timerWrites>>

(* Mutant: the doubling is forgotten when a counter is read.               *)
AsItIs(c) == c
Halved(c) == c \div 2

(* The counter, read as a halfword when the DS's has counted e, two of them *)
(* to each tick of the GBA's clock, one to an overflow.  The test for the  *)
(* top bit looks at one byte of ioMem and never succeeds.                  *)
CPUReadCounter(n) ==
  /\ TIMER_CR[n] # "off" /\ ~timersPaused /\ n \notin drift
  /\ \E e \in 0 .. TimerMod - 1 - runsFrom[n] :
       counterRead' = [value |-> Halved(runsFrom[n] + e), from |-> gbaFrom[n],
                       counted |-> IF TIMER_CR[n] = "up" THEN e ELSE e \div 2,
                       up |-> TIMER_CR[n] = "up"]
  /\ UNCHANGED <<timerReload, timerValue, TIMER_DATA, TIMER_CR, runsFrom, timersPaused,
                 gbaFrom, unset, drift, timerWrites>>

(* pausemenue: the timers stop, and start again as the game set them.      *)
StopTimers ==
  /\ TIMER_CR' = [n \in 0 .. 3 |-> "off"]
  /\ timersPaused' = TRUE
  /\ UNCHANGED <<timerReload, timerValue, TIMER_DATA, runsFrom, gbaFrom, unset, drift,
                 counterRead, timerWrites>>
Restarted == [n \in 0 .. 3 |-> timerValue[n]]
RestartTimers ==
  LET starts == {n \in 0 .. 3 : Restarted[n] # "off" /\ TIMER_CR[n] = "off"}
  IN /\ TIMER_CR' = Restarted
     /\ Begin(starts, TIMER_DATA)
     /\ drift' = (drift \ starts) \cup (starts \cap Strays)
     /\ timersPaused' = FALSE
     /\ UNCHANGED <<timerReload, timerValue, TIMER_DATA, unset, counterRead, timerWrites>>

TimersNext ==
  \/ \E n \in UsedTimers :
       \/ \E r \in Word : WriteReload(n, r)
       \/ \E control \in ControlsOf(n) : WriteTMCNT(n, control)
       \/ Overflow(n) \/ CPUReadCounter(n)
  \/ ~timersPaused /\ StopTimers
  \/ timersPaused /\ RestartTimers
TimersSpec == TimersInit /\ [][TimersNext]_timerVars
-----------------------------------------------------------------------------
(* What the DS's timer counts in its period, and would count in the GBA's: *)
(* its clock is twice as fast, the timer before overflows at the same rate. *)
Length(n) == TimerMod - runsFrom[n]
GbaLength(n) == (IF TIMER_CR[n] = "up" THEN 1 ELSE 2) * (TimerMod - gbaFrom[n])

(* A timer started after its reload was set, and every period of it until  *)
(* the reload changes, lasts as long as on the GBA if it counts the clock, *)
(* and twice as long if it counts overflows, whose number was doubled too; *)
(* of a reload without its top bit a whole turn of the DS's counter is     *)
(* missing.  Timer 0 is held to it only while timer 1 has the same reload. *)
(* A counter read as a halfword is the GBA's but for its top bit, and      *)
(* shows half of the overflows counted.                                    *)
TimersAsOnTheGba ==
  /\ \A n \in 0 .. 3 \ drift : TIMER_CR[n] # "off" =>
       Length(n) + (IF gbaFrom[n] < Upper THEN TimerMod ELSE 0)
         = (IF TIMER_CR[n] = "up" THEN 2 ELSE 1) * GbaLength(n)
  /\ LET shown == IF counterRead.up THEN counterRead.counted \div 2 ELSE counterRead.counted
     IN counterRead.value % Upper = (counterRead.from + shown) % Upper
=============================================================================
